---- MODULE Spec2Model ----
(***************************************************************************)
(* A model of PyIDE (src/ide.py, with the earlier revision                 *)
(* src/proyectos.py): the regex syntax highlighter, the XOR cipher, the    *)
(* key handling of the code editor, go-to-line, running the buffer in a    *)
(* child process, the file handlers of the tabs, the handlers of the        *)
(* project tree, the themes, the loading of the keyword, theme and state   *)
(* files at start-up and the saving of the state when the window closes.   *)
(*                                                                         *)
(* A text is a sequence of one-character strings; offsets into a line are  *)
(* 0-based as in Qt (the character at offset k is text[k + 1]).            *)
(***************************************************************************)
EXTENDS Integers, Sequences, FiniteSets, TLC

VARIABLES
    hlText,      \* the text of the block handed to highlightBlock
    hlKeywords,  \* the module-level KEYWORDS list the rules were built from
    hlSpans,     \* setFormat calls of ide.py's highlightBlock, in call order
    hlSpansP,    \* setFormat calls of proyectos.py's highlightBlock, in call order
    xIn,         \* xor_cipher: the text given to the first application
    xKey,        \* xor_cipher: the key
    xOut,        \* xor_cipher: the text returned by the latest application
    xpc,         \* "start", "once", "twice" or "raised" (chr raised ValueError)
    edText,      \* CodeEditor: the document, blocks separated by "\n"
    edPos,       \* CodeEditor: textCursor().position(); the selection is empty
    edOp,        \* the handler that ran last
    preText,     \* the document when that handler was entered
    prePos,      \* the cursor position when that handler was entered
    tabFrom,     \* after Shift+Tab pressed right after Tab: <<document, cursor>> before that Tab
    gotoWant,    \* go_to_line: the number the user tried to enter in the dialog
    gotoLine,    \* go_to_line: the number QInputDialog.getInt returned
    gotoOk,      \* go_to_line: the ok flag QInputDialog.getInt returned
    gotoErr,     \* go_to_line: the error go_to_line ended with ("none": it has no error path)
    procState,   \* self.proc.state(): "NotRunning", "Starting" or "Running"
    procError,   \* self.proc.error(): "none" or "FailedToStart"
    procFile,    \* number of the temporary file the process was started on (0: none)
    childOut,    \* bytes the child process has yet to write
    pipe,        \* bytes the child has written and the IDE has not read
    outLog,      \* self.output: the text of the output panel, a sequence of characters
    statusMsg,   \* the message last shown in the status bar
    tmpFiles,    \* the temporary files written so far, in order of creation
    exitCode,    \* the exit code handed to process_finished last (-1: none yet)
    delivered,   \* the bytes read from the process since it was started
    runOp,       \* the run handler or process event that came last
    runSteps,    \* the effects of the latest run_current, in program order
    preLog,      \* outLog when that handler was entered
    preProc,     \* procState when that handler was entered
    preTmp,      \* tmpFiles when that handler was entered
    tabs,        \* self.tabs: per tab the editor's file_path, the tab title, document().isModified()
                 \* and the theme the editor was styled and highlighted with last
    cur,         \* self.tabs.currentIndex() + 1 (0: no tab)
    lastDir,     \* STATE["last_dir"]
    disk,        \* the file system: for each entry that exists, what it holds
    fOp,         \* the file handler that ran last
    fFailed,     \* whether a file operation of that handler raised
    preTabs,     \* tabs when that handler was entered
    preCur,      \* cur when that handler was entered
    preLastDir,  \* lastDir when that handler was entered
    preDisk,     \* disk when the handler that last created entries or closed was entered
    fsTarget,    \* the entry that handler set out to create (NoPath: none yet)
    clipPath,    \* self._clipboard_path (NoPath: None)
    clipIsDir,   \* self._clipboard_is_dir
    cfgPc,       \* start-up: "keywords", "themes" or "done" (what is loaded next)
    kwFile,      \* palabras_reservadas.json as found at start-up
    KEYWORDS,    \* the module-level KEYWORDS
    themeFile,   \* temas.json as found at start-up
    THEMES,      \* the module-level THEMES: for each name the theme it maps to
    DEFAULT_THEME, \* the module-level DEFAULT_THEME
    startPc,     \* start-up after the themes: "state", "window", then "running", "crashed" or "closed"
    stateFile,   \* estado.json as found at start-up
    stShape,     \* what STATE is: "record", "empty_record", "list" or "bad_open_files"
    stOpenFiles, \* STATE["open_files"]
    stTheme,     \* STATE["current_theme"]
    curTheme,    \* self.current_theme_name
    written,     \* what closeEvent wrote to estado.json (<<>>: nothing written)
    sOp,         \* the start-up step, theme dialog or close request that came last
    closeAsked,  \* whether the latest closeEvent asked about unsaved changes
    closeResp,   \* the answer to that question
    lastOpenDir, \* the directory of the file that File > Open or Save as handled last with success
    preTheme,    \* curTheme when the theme dialog or close request that came last was entered
    preSt,       \* STATE's open_files and current_theme at that moment
    selTheme     \* the name selected in the theme dialog that was shown last

hlVars == <<hlText, hlKeywords, hlSpans, hlSpansP>>
xVars == <<xIn, xKey, xOut, xpc>>
edVars == <<edText, edPos, edOp, preText, prePos, tabFrom,
            gotoWant, gotoLine, gotoOk, gotoErr>>
runVars == <<procState, procError, procFile, childOut, pipe, outLog, statusMsg,
             tmpFiles, exitCode, delivered, runOp, runSteps, preLog, preProc, preTmp>>
fileVars == <<tabs, cur, lastDir, disk, fOp, fFailed, preTabs, preCur, preLastDir,
              preDisk, fsTarget, clipPath, clipIsDir>>
cfgVars == <<cfgPc, kwFile, KEYWORDS, themeFile, THEMES, DEFAULT_THEME>>
sessVars == <<startPc, stateFile, stShape, stOpenFiles, stTheme, curTheme, written,
              sOp, closeAsked, closeResp, lastOpenDir, preTheme, preSt, selTheme>>
appVars == <<runVars, fileVars, cfgVars, sessVars>>
vars == <<hlVars, xVars, edVars, appVars>>

\* ------------------------------------------------------------------ bounds

\* Longest line typed into the highlighted block.
MaxLineLen == 4
\* Longest text given to xor_cipher.
MaxXorLen == 2
\* Longest file content loaded into the editor.
MaxLoadLen == 3
\* Longest document the key handlers may grow (guards of Enter and Tab).
MaxTextLen == 8
\* Longest document of a buffer that is typed into and encrypted.
MaxBufLen == 4
\* Most temporary files written by run requests.
MaxRuns == 2
\* Most tabs open at a time.
MaxTabs == 2
\* Most files created by new_file.
MaxNewFiles == 2
\* Most records in the theme file.
MaxThemes == 2
\* Highest number a pasted file's name gets.
MaxCopies == 1

\* ------------------------------------------------------------------ text helpers

Min2(a, b) == IF a <= b THEN a ELSE b

\* text[a .. b) by 0-based offsets
Slice(text, a, b) == SubSeq(text, a + 1, b)

\* ' ' * n
Spaces(n) == [i \in 1..n |-> " "]

\* Sequences over S of length at most n
SeqUpTo(S, n) == UNION {[1..k -> S] : k \in 0..n}

\* \w of the regular expressions: letters, digits and underscore
WordChars == {"a", "b", "c", "d", "e", "f", "g", "h", "i", "j", "k", "l", "m",
              "n", "o", "p", "q", "r", "s", "t", "u", "v", "w", "x", "y", "z",
              "0", "1", "2", "3", "4", "5", "6", "7", "8", "9", "_"}

IsWordChar(c) == c \in WordChars

\* ------------------------------------------------------------------ highlighter

\* The built-in keyword list.
DEFAULT_KEYWORDS ==
    << <<"i","m","p","o","r","t">>, <<"f","r","o","m">>, <<"c","l","a","s","s">>,
       <<"d","e","f">>, <<"i","f">>, <<"e","l","i","f">>, <<"e","l","s","e">>,
       <<"f","o","r">>, <<"w","h","i","l","e">>, <<"r","e","t","u","r","n">>,
       <<"i","n">>, <<"a","n","d">>, <<"o","r">>, <<"n","o","t">>,
       <<"w","i","t","h">>, <<"a","s">>, <<"t","r","y">>,
       <<"e","x","c","e","p","t">>, <<"f","i","n","a","l","l","y">>,
       <<"p","a","s","s">>, <<"b","r","e","a","k">>,
       <<"c","o","n","t","i","n","u","e">>, <<"y","i","e","l","d">>,
       <<"a","s","s","e","r","t">>, <<"a","s","y","n","c">>,
       <<"a","w","a","i","t">>, <<"g","l","o","b","a","l">>,
       <<"n","o","n","l","o","c","a","l">>, <<"d","e","l">>,
       <<"r","a","i","s","e">>, <<"i","s">>, <<"l","a","m","b","d","a">> >>

Quotes == {"'", "\""}

Span(s, l, f) == [start |-> s, length |-> l, fmt |-> f]

\* Offset of the first occurrence of c in text at or after offset from; Len(text) if none.
RECURSIVE FindChar(_, _, _)
FindChar(text, c, from) ==
    IF from >= Len(text) THEN Len(text)
    ELSE IF text[from + 1] = c THEN from
    ELSE FindChar(text, c, from + 1)

\* globalMatch of string_pattern (['"]).*?\1 from offset from: at a quote
\* character the lazy .*? stops at the nearest later occurrence of the same
\* quote; the next match is searched after the end of this one.
RECURSIVE StringMatches(_, _)
StringMatches(text, from) ==
    IF from >= Len(text) THEN <<>>
    ELSE IF text[from + 1] \in Quotes
              /\ FindChar(text, text[from + 1], from + 1) < Len(text)
         THEN LET close == FindChar(text, text[from + 1], from + 1)
              IN  <<Span(from, close - from + 1, "string")>>
                      \o StringMatches(text, close + 1)
         ELSE StringMatches(text, from + 1)

\* comment_pattern matching the '#' alone.
CommentMatches_HashOnly(text) ==
    LET h == FindChar(text, "#", 0)
    IN  IF h < Len(text) THEN <<Span(h, 1, "comment")>> ELSE <<>>

\* globalMatch of comment_pattern #.* : from the first '#' to the end of the block.
CommentMatches(text) ==
    LET h == FindChar(text, "#", 0)
    IN  IF h < Len(text) THEN <<Span(h, Len(text) - h, "comment")>> ELSE <<>>

\* \bw\b matches at offset s.
WordAt(text, w, s) ==
    /\ Len(w) > 0
    /\ s + Len(w) <= Len(text)
    /\ \A i \in 1..Len(w) : text[s + i] = w[i]
    /\ (s = 0 \/ ~IsWordChar(text[s]))
    /\ (s + Len(w) = Len(text) \/ ~IsWordChar(text[s + Len(w) + 1]))

\* globalMatch of the rule \bw\b from offset from, left to right.
RECURSIVE KeywordMatches(_, _, _)
KeywordMatches(text, w, from) ==
    IF from >= Len(text) THEN <<>>
    ELSE IF WordAt(text, w, from)
         THEN <<Span(from, Len(w), "keyword")>> \o KeywordMatches(text, w, from + Len(w))
         ELSE KeywordMatches(text, w, from + 1)

\* any(start <= s < start + length for start, length in spans)
Masked(s, spans) ==
    \E i \in 1..Len(spans) : spans[i].start <= s /\ s < spans[i].start + spans[i].length

\* The spans of seq whose start offset lies in no span of masks, in order.
RECURSIVE Filter(_, _)
Filter(seq, masks) ==
    IF seq = <<>> THEN <<>>
    ELSE (IF Masked(Head(seq).start, masks) THEN <<>> ELSE <<Head(seq)>>)
             \o Filter(Tail(seq), masks)

\* The loop over keyword_rules of ide.py from rule k on: each match is formatted
\* unless its start lies in a string or comment span.
RECURSIVE KeywordCalls(_, _, _, _)
KeywordCalls(text, kws, k, masks) ==
    IF k > Len(kws) THEN <<>>
    ELSE Filter(KeywordMatches(text, kws[k], 0), masks)
             \o KeywordCalls(text, kws, k + 1, masks)

\* highlightBlock with the keyword loop consulting string_spans only.
highlightBlock_NoCommentMask(text, kws) ==
    LET string_spans == StringMatches(text, 0)
        comment_spans == CommentMatches(text)
    IN  string_spans \o comment_spans \o KeywordCalls(text, kws, 1, string_spans)

\* ide.py PythonHighlighter.highlightBlock: the setFormat calls, in order.
highlightBlock(text, kws) ==
    LET string_spans == StringMatches(text, 0)
        comment_spans == CommentMatches(text)
    IN  string_spans \o comment_spans
            \o KeywordCalls(text, kws, 1, string_spans \o comment_spans)

\* proyectos.py PythonHighlighter.highlightBlock: every rule in the order of
\* self.rules (the built-in keywords, then the comment rule), none masked.
highlightBlockP(text) ==
    KeywordCalls(text, DEFAULT_KEYWORDS, 1, <<>>) \o CommentMatches(text)

\* The format shown at offset off after the calls: setFormat overwrites, so the
\* last call covering the offset wins; "plain" if none covers it.
RECURSIVE FormatAt(_, _)
FormatAt(calls, off) ==
    IF calls = <<>> THEN "plain"
    ELSE LET c == calls[Len(calls)]
         IN  IF c.start <= off /\ off < c.start + c.length THEN c.fmt
             ELSE FormatAt(SubSeq(calls, 1, Len(calls) - 1), off)

\* ------------------------------------------------------------------ highlighter: state machine

\* Characters typed into the highlighted block.
HLChars == {"i", "f", " ", "#", "'", "\""}

\* The scenario line of the specification: def foo():  # start
ExampleLine ==
    <<"d","e","f"," ","f","o","o","(",")",":"," "," ","#"," ","s","t","a","r","t">>

\* Lines loaded from a file rather than typed.
SampleLines == {ExampleLine}

\* Values of KEYWORDS: the built-in list, the empty list left by an unreadable
\* palabras_reservadas.json, and a list read from that file.
KeywordLists == {DEFAULT_KEYWORDS, <<>>, << <<"f">>, <<"i","f">> >>}

HLInit ==
    /\ hlText = <<>>
    /\ hlKeywords \in KeywordLists
    /\ hlSpans = <<>>
    /\ hlSpansP = <<>>

\* The document changed to text: Qt calls highlightBlock on the block.
Rehighlight(text) ==
    /\ hlText' = text
    /\ hlSpans' = highlightBlock(text, hlKeywords)
    /\ hlSpansP' = highlightBlockP(text)
    /\ UNCHANGED <<hlKeywords, xVars, edVars, appVars>>

\* A character typed at the end of the line.
HLType(c) ==
    /\ Len(hlText) < MaxLineLen
    /\ Rehighlight(Append(hlText, c))

\* Backspace at the end of the line.
HLBackspace ==
    /\ Len(hlText) > 0
    /\ Rehighlight(SubSeq(hlText, 1, Len(hlText) - 1))

\* A one-line file loaded into a new editor (setPlainText, then a highlighter on its document).
HLLoad(t) ==
    /\ hlText = <<>>
    /\ Rehighlight(t)

HLNext ==
    \/ \E c \in HLChars : HLType(c)
    \/ HLBackspace
    \/ \E t \in SampleLines : HLLoad(t)

\* ------------------------------------------------------------------ XOR cipher

ENCRYPTION_KEY == 67

\* The largest argument chr accepts, 0x10FFFF.
MaxCodePoint == 17 * 65536 - 1

\* a ^ b for a, b >= 0
RECURSIVE XorNat(_, _)
XorNat(a, b) ==
    IF a = 0 THEN b
    ELSE IF b = 0 THEN a
    ELSE (((a % 2) + (b % 2)) % 2) + 2 * XorNat(a \div 2, b \div 2)

\* Python's a ^ b on unbounded two's-complement integers (~n = -n - 1)
XorInt(a, b) ==
    IF a >= 0 /\ b >= 0 THEN XorNat(a, b)
    ELSE IF a >= 0 THEN -XorNat(a, -b - 1) - 1
    ELSE IF b >= 0 THEN -XorNat(-a - 1, b) - 1
    ELSE XorNat(-a - 1, -b - 1)

\* chr(n) returns a character; outside range(0x110000) it raises ValueError
chrOk(n) == 0 <= n /\ n <= MaxCodePoint

\* xor_cipher on a text given as the sequence of its code points (ord(c)):
\* the joined characters, or raised when chr rejects one of the values.
xor_cipher(text, key) ==
    IF \A i \in 1..Len(text) : chrOk(XorInt(text[i], key))
    THEN [raised |-> FALSE, text |-> [i \in 1..Len(text) |-> XorInt(text[i], key)]]
    ELSE [raised |-> TRUE, text |-> <<>>]

\* Code points of the input texts: NUL, newline, 'A', 'a', U+10FFFF.
XorChars == {0, 10, 65, 97, MaxCodePoint}

\* Keys: the default, zero, one, negative keys and the first key above the code-point range.
XorKeys == {ENCRYPTION_KEY, 0, 1, -1, -ENCRYPTION_KEY, MaxCodePoint + 1}

XInit ==
    /\ xIn \in SeqUpTo(XorChars, MaxXorLen)
    /\ xKey \in XorKeys
    /\ xOut = <<>>
    /\ xpc = "start"

\* xor_cipher(text, key)
XApply ==
    /\ xpc = "start"
    /\ LET r == xor_cipher(xIn, xKey)
       IN  /\ xOut' = r.text
           /\ xpc' = IF r.raised THEN "raised" ELSE "once"
    /\ UNCHANGED <<xIn, xKey, hlVars, edVars, appVars>>

\* xor_cipher(xor_cipher(text, key), key)
XApplyAgain ==
    /\ xpc = "once"
    /\ LET r == xor_cipher(xOut, xKey)
       IN  /\ xOut' = r.text
           /\ xpc' = IF r.raised THEN "raised" ELSE "twice"
    /\ UNCHANGED <<xIn, xKey, hlVars, edVars, appVars>>

XNext == XApply \/ XApplyAgain

\* ------------------------------------------------------------------ code editor

\* Width of one indentation step: ' ' * 4, indent >= 4, start + 4.
IndentWidth == 4

\* Characters of the loaded files: space, a letter, colon, newline.
EdChars == {" ", "a", ":", "\n"}

\* block.position() of the block holding offset pos
RECURSIVE BlockStart(_, _)
BlockStart(text, pos) ==
    IF pos = 0 THEN 0
    ELSE IF text[pos] = "\n" THEN pos
    ELSE BlockStart(text, pos - 1)

\* Offset just after the last character of the block holding offset pos
BlockEnd(text, pos) == FindChar(text, "\n", pos)

\* cursor.block().text()
BlockText(text, pos) == Slice(text, BlockStart(text, pos), BlockEnd(text, pos))

\* len(text) - len(text.lstrip(' '))
RECURSIVE LeadingSpaces(_)
LeadingSpaces(line) ==
    IF line = <<>> \/ Head(line) # " " THEN 0 ELSE 1 + LeadingSpaces(Tail(line))

\* text.rstrip()
RECURSIVE RStrip(_)
RStrip(line) ==
    IF line = <<>> \/ line[Len(line)] \notin {" ", "\n"} THEN line
    ELSE RStrip(SubSeq(line, 1, Len(line) - 1))

\* text.rstrip().endswith(':')
EndsWithColon(line) == RStrip(line) # <<>> /\ RStrip(line)[Len(RStrip(line))] = ":"

\* The indentation Enter inserts, with extra decided on the unstripped text.
NewIndent_NoRStrip(line) ==
    LeadingSpaces(line) + (IF line # <<>> /\ line[Len(line)] = ":" THEN IndentWidth ELSE 0)

\* base_indent + extra of the Enter branch
NewIndent(line) ==
    LeadingSpaces(line) + (IF EndsWithColon(line) THEN IndentWidth ELSE 0)

\* The document with ins inserted at offset at
Insert(text, at, ins) == Slice(text, 0, at) \o ins \o Slice(text, at, Len(text))

\* The document without the n characters from offset at on
Remove(text, at, n) == Slice(text, 0, at) \o Slice(text, at + n, Len(text))

\* Enter deciding extra on the unstripped text of the block.
KeyEnterResult_NoRStrip(text, pos) ==
    LET n == NewIndent_NoRStrip(BlockText(text, pos))
    IN  [text |-> Insert(text, pos, <<"\n">> \o Spaces(n)), pos |-> pos + 1 + n]

\* Enter: the indentation is computed from the block of the cursor, the base
\* class inserts a block at the cursor, insertPlainText adds the spaces.
KeyEnterResult(text, pos) ==
    LET n == NewIndent(BlockText(text, pos))
    IN  [text |-> Insert(text, pos, <<"\n">> \o Spaces(n)), pos |-> pos + 1 + n]

\* Tab without modifiers: insertPlainText(' ' * 4) at the cursor.
KeyTabResult(text, pos) ==
    [text |-> Insert(text, pos, Spaces(IndentWidth)), pos |-> pos + IndentWidth]

\* Where Qt leaves a cursor offset p after the characters [start, start + n) are removed
AfterRemove(p, start, n) ==
    IF p >= start + n THEN p - n ELSE IF p > start THEN start ELSE p

\* Shift+Tab treating an indentation of exactly one step as too small.
KeyBacktabResult_Strict(text, pos) ==
    LET start == BlockStart(text, pos)
    IN  IF LeadingSpaces(BlockText(text, pos)) > IndentWidth
        THEN [text |-> Remove(text, start, IndentWidth),
              pos |-> AfterRemove(pos, start, IndentWidth)]
        ELSE [text |-> text, pos |-> pos]

\* Shift+Tab removing four characters of a block that has only three leading spaces.
KeyBacktabResult_Eager(text, pos) ==
    LET start == BlockStart(text, pos)
    IN  IF LeadingSpaces(BlockText(text, pos)) >= IndentWidth - 1
        THEN [text |-> Remove(text, start, Min2(IndentWidth, Len(text) - start)),
              pos |-> AfterRemove(pos, start, Min2(IndentWidth, Len(text) - start))]
        ELSE [text |-> text, pos |-> pos]

\* Shift+Tab: with at least 4 leading spaces in the block of the cursor, a copy of
\* the cursor selects [start, start + 4) and removes it; the editor's own cursor
\* is moved by the document change only.
KeyBacktabResult(text, pos) ==
    LET start == BlockStart(text, pos)
    IN  IF LeadingSpaces(BlockText(text, pos)) >= IndentWidth
        THEN [text |-> Remove(text, start, IndentWidth),
              pos |-> AfterRemove(pos, start, IndentWidth)]
        ELSE [text |-> text, pos |-> pos]

\* A line count that counts the line breaks only.
RECURSIVE blockCount_LineBreaks(_)
blockCount_LineBreaks(text) ==
    IF text = <<>> THEN 0
    ELSE (IF Head(text) = "\n" THEN 1 ELSE 0) + blockCount_LineBreaks(Tail(text))

\* ed.document().blockCount()
RECURSIVE blockCount(_)
blockCount(text) ==
    IF text = <<>> THEN 1
    ELSE (IF Head(text) = "\n" THEN 1 ELSE 0) + blockCount(Tail(text))

\* Start offset of block number n (0-based), scanning from offset from
RECURSIVE BlockPosition(_, _, _)
BlockPosition(text, n, from) ==
    IF n = 0 THEN from
    ELSE IF FindChar(text, "\n", from) >= Len(text) THEN Len(text)
    ELSE BlockPosition(text, n - 1, FindChar(text, "\n", from) + 1)

\* go_to_line looking up block number line instead of line - 1.
GoToPosition_OffByOne(text, line) == BlockPosition(text, line, 0)

\* QTextCursor(ed.document().findBlockByNumber(line - 1)).position()
GoToPosition(text, line) == BlockPosition(text, line - 1, 0)

EdInit ==
    /\ edText = <<>>
    /\ edPos = 0
    /\ edOp = "init"
    /\ preText = <<>>
    /\ prePos = 0
    /\ tabFrom = <<>>
    /\ gotoWant = 1
    /\ gotoLine = 1
    /\ gotoOk = FALSE
    /\ gotoErr = "none"

\* No go-to-line dialog took part in the handler that ran last.
NoDialog ==
    /\ gotoWant' = 1
    /\ gotoLine' = 1
    /\ gotoOk' = FALSE
    /\ gotoErr' = "none"

\* The state a key handler or go_to_line was entered in
Remember ==
    /\ preText' = edText
    /\ prePos' = edPos

\* Nothing is remembered of the state before a load or a cursor movement.
Forget ==
    /\ preText' = edText'
    /\ prePos' = edPos'

\* _load_path: the file's text is put into the editor just constructed; the
\* cursor is at the start.
EdLoad(t) ==
    /\ edOp = "init"
    /\ edText' = t
    /\ edPos' = 0
    /\ edOp' = "load"
    /\ tabFrom' = <<>>
    /\ Forget
    /\ NoDialog
    /\ UNCHANGED <<hlVars, xVars, appVars>>

\* An arrow key or a mouse press, handled by the base class: the cursor is placed at p.
EdMoveCursor(p) ==
    /\ p # edPos
    /\ edPos' = p
    /\ edOp' = "move"
    /\ tabFrom' = <<>>
    /\ UNCHANGED <<edText, hlVars, xVars, appVars>>
    /\ NoDialog
    /\ Forget

ApplyKey(r, op) ==
    /\ Len(r.text) <= MaxTextLen
    /\ edText' = r.text
    /\ edPos' = r.pos
    /\ edOp' = op
    /\ tabFrom' = IF op = "backtab" /\ edOp = "tab" THEN <<preText, prePos>> ELSE <<>>
    /\ Remember
    /\ NoDialog
    /\ UNCHANGED <<hlVars, xVars, appVars>>

\* keyPressEvent, Qt.Key_Return / Qt.Key_Enter
KeyEnter == ApplyKey(KeyEnterResult(edText, edPos), "enter")

\* keyPressEvent, Qt.Key_Tab without modifiers
KeyTab == ApplyKey(KeyTabResult(edText, edPos), "tab")

\* keyPressEvent, Qt.Key_Backtab
KeyBacktab == ApplyKey(KeyBacktabResult(edText, edPos), "backtab")

\* A dialog that hands back whatever number the user asked for.
getInt_Unbounded(want, min, max) == {want}

\* QInputDialog.getInt(parent, title, label, value, min, max, step): the numbers
\* the spin box over [min, max] can return to a user aiming at want.
getInt(want, min, max) == IF want \in min..max THEN {want} ELSE min..max

\* go_to_line: the dialog is a spin box over [1, max_line] starting at 1. The user
\* aims at want; the dialog returns want when it is in the range and some number
\* of the range otherwise, with ok = FALSE when the dialog is cancelled.
go_to_line(want, line, ok) ==
    /\ line \in getInt(want, 1, blockCount(edText))
    /\ gotoWant' = want
    /\ gotoLine' = line
    /\ gotoOk' = ok
    /\ gotoErr' = "none"
    /\ edPos' = IF ok THEN GoToPosition(edText, line) ELSE edPos
    /\ edOp' = "goto"
    /\ tabFrom' = <<>>
    /\ Remember
    /\ UNCHANGED <<edText, hlVars, xVars, appVars>>

\* The ten-line buffer of the go-to-line scenario: a, :, a, :, ... one per line.
TenLines ==
    [i \in 1..19 |-> IF i % 2 = 0 THEN "\n" ELSE IF i % 4 = 1 THEN "a" ELSE ":"]

\* File contents loaded into an editor.
LoadTexts == SeqUpTo(EdChars, MaxLoadLen)

EdNext ==
    \/ \E t \in LoadTexts : EdLoad(t)
    \/ \E p \in 0..Len(edText) : EdMoveCursor(p)
    \/ KeyEnter
    \/ KeyTab
    \/ KeyBacktab

GotoNext ==
    \/ \E t \in LoadTexts \cup {TenLines} : EdLoad(t)
    \/ \E p \in 0..Len(edText) : EdMoveCursor(p)
    \/ \E want \in 0..(blockCount(edText) + 1), ok \in BOOLEAN :
           \E line \in 0..(blockCount(edText) + 1) : go_to_line(want, line, ok)

\* ------------------------------------------------------------------ typing and encryption

\* The characters of a buffer that is typed into and encrypted: space, a, colon
\* and newline with their images under XOR with ENCRYPTION_KEY (c, ", y, I).
BufChars == {" ", "c", "a", "\"", ":", "y", "\n", "I"}

\* ord(c)
ord(c) ==
    CASE c = " " -> 32
      [] c = "c" -> 99
      [] c = "a" -> 97
      [] c = "\"" -> 34
      [] c = ":" -> 58
      [] c = "y" -> 121
      [] c = "\n" -> 10
      [] c = "I" -> 73

\* chr(n) for the code points of BufChars
chr(n) == CHOOSE c \in BufChars : ord(c) = n

\* xor_cipher(ed.toPlainText()) with the default key, on a text of characters;
\* the text itself when xor_cipher raises (setPlainText is not reached).
XorText(text) ==
    LET r == xor_cipher([i \in 1..Len(text) |-> ord(text[i])], ENCRYPTION_KEY)
    IN  IF r.raised THEN text ELSE [i \in 1..Len(r.text) |-> chr(r.text[i])]

\* Characters typed with a printable key.
TypedChars == {"a", " "}

\* A printable key, handled by the base class: the character goes in at the cursor.
EdType(c) ==
    /\ edOp # "init"
    /\ Len(edText) < MaxBufLen
    /\ edText' = Insert(edText, edPos, <<c>>)
    /\ edPos' = edPos + 1
    /\ edOp' = "type"
    /\ tabFrom' = <<>>
    /\ Forget
    /\ NoDialog
    /\ UNCHANGED <<hlVars, xVars, appVars>>

\* Backspace, handled by the base class: the character left of the cursor goes.
EdBackspace ==
    /\ edPos > 0
    /\ edText' = Remove(edText, edPos - 1, 1)
    /\ edPos' = edPos - 1
    /\ edOp' = "backspace"
    /\ tabFrom' = <<>>
    /\ Forget
    /\ NoDialog
    /\ UNCHANGED <<hlVars, xVars, appVars>>

\* setPlainText(xor_cipher(toPlainText())): the cursor goes back to the start.
SetXorText(op) ==
    /\ edOp # "init"
    /\ edText' = XorText(edText)
    /\ edPos' = 0
    /\ edOp' = op
    /\ tabFrom' = <<>>
    /\ Forget
    /\ NoDialog
    /\ UNCHANGED <<hlVars, xVars, appVars>>

\* MainWindow.encrypt_current
encrypt_current == SetXorText("encrypt")

\* MainWindow.decrypt_current
decrypt_current == SetXorText("decrypt")

\* Enter, Tab and Shift+Tab on a buffer no longer than MaxBufLen.
BufKey(A) == A /\ Len(edText') <= MaxBufLen

BufNext ==
    \/ edOp = "init" /\ \E t \in SeqUpTo({"a", "\n"}, MaxBufLen - 1) : EdLoad(t)
    \/ \E p \in 0..Len(edText) : EdMoveCursor(p)
    \/ \E c \in TypedChars : EdType(c)
    \/ EdBackspace
    \/ encrypt_current
    \/ decrypt_current
    \/ BufKey(KeyEnter)
    \/ BufKey(KeyTab)
    \/ BufKey(KeyBacktab)

\* ------------------------------------------------------------------ running the buffer

\* Bytes a child writes: ASCII h, i, newline and the two bytes of U+00E9.
OutBytes == {"h", "i", "\n", "C3", "A9"}

\* What a child may write in all: nothing, the output of print('hi'), U+00E9.
ChildOutputs == {<<>>, <<"h", "i", "\n">>, <<"C3", "A9">>}

\* Exit codes handed to process_finished.
ExitCodes == {0, 1, 2}

\* bytes.decode(): UTF-8, strict. raised stands for UnicodeDecodeError.
RECURSIVE decode(_)
decode(bytes) ==
    IF bytes = <<>> THEN [raised |-> FALSE, text |-> <<>>]
    ELSE IF Head(bytes) = "A9" THEN [raised |-> TRUE, text |-> <<>>]
    ELSE IF Head(bytes) = "C3"
         THEN IF Len(bytes) >= 2 /\ bytes[2] = "A9"
              THEN LET r == decode(Tail(Tail(bytes)))
                   IN  [raised |-> r.raised, text |-> IF r.raised THEN <<>> ELSE <<"U+00E9">> \o r.text]
              ELSE [raised |-> TRUE, text |-> <<>>]
    ELSE LET r == decode(Tail(bytes))
         IN  [raised |-> r.raised, text |-> IF r.raised THEN <<>> ELSE <<Head(bytes)>> \o r.text]

\* An appendPlainText that inserts the text at the end with no new paragraph.
appendPlainText_NoParagraph(log, text) == log \o text

\* QPlainTextEdit.appendPlainText: a new paragraph with the text at the end of
\* the document; an empty document takes the text into its first paragraph.
appendPlainText(log, text) == IF log = <<>> THEN text ELSE log \o <<"\n">> \o text

\* The output panel after handle_stdout has read bytes: nothing is appended
\* when decode raises or the text is empty.
handle_stdout_log(log, bytes) ==
    IF decode(bytes).raised \/ decode(bytes).text = <<>> THEN log
    ELSE appendPlainText(log, decode(bytes).text)

\* The final message of process_finished, one token of the log.
SuccessMessage == ">>> Ejecucion completada correctamente, sin errores."
FailureMessage(code) == ">>> Ejecucion finalizada con errores (exit code " \o ToString(code) \o ")."

\* A process_finished that reports success whatever the exit code.
FinalMessage_AlwaysSuccess(code) == SuccessMessage

FinalMessage(code) == IF code = 0 THEN SuccessMessage ELSE FailureMessage(code)

\* The output panel after process_finished(exit_code, ...) with unread bytes
\* left in the process: handle_stdout first, then the final message; nothing
\* more when handle_stdout raises.
process_finished_log(log, unread, code) ==
    IF decode(unread).raised THEN log
    ELSE appendPlainText(handle_stdout_log(log, unread), <<FinalMessage(code)>>)

\* The status bar after process_finished.
process_finished_status(status, unread, code) ==
    IF decode(unread).raised THEN status
    ELSE IF code = 0 THEN "Proceso finalizado (exit code 0)" ELSE FinalMessage(code)

\* self.proc.start(...). state is self.proc.state() on entry: on a process that
\* is not NotRunning QProcess.start only warns and returns. Where the platform
\* reports a failed spawn inside start (spawn = "failed_now") the process is
\* back in NotRunning with error FailedToStart when start returns; elsewhere
\* the process is Starting and the outcome arrives as an event.
start_step(state, spawn) ==
    IF state # "NotRunning" THEN "start_ignored"
    ELSE IF spawn = "failed_now" THEN "start_failed"
    ELSE "start"

\* run_current clearing the output panel before the temporary file is written.
run_steps_ClearFirst(tmp, state, spawn) ==
    IF tmp = "create_failed" THEN <<"clear", "tmp_failed">>
    ELSE IF tmp = "write_failed" THEN <<"clear", "tmp_created", "tmp_failed">>
    ELSE <<"clear", "tmp_created", "tmp_written", "status", start_step(state, spawn)>>

\* The effects of run_current with an open tab, in program order. tmp is the
\* fate of the temporary file.
run_steps(tmp, state, spawn) ==
    IF tmp = "create_failed" THEN <<"tmp_failed">>
    ELSE IF tmp = "write_failed" THEN <<"tmp_created", "tmp_failed">>
    ELSE <<"tmp_created", "tmp_written", "clear", "status", start_step(state, spawn)>>

Has(steps, x) == \E i \in 1..Len(steps) : steps[i] = x

RunInit ==
    /\ procState = "NotRunning"
    /\ procError = "none"
    /\ procFile = 0
    /\ childOut = <<>>
    /\ pipe = <<>>
    /\ outLog = <<>>
    /\ statusMsg = ""
    /\ tmpFiles = <<>>
    /\ exitCode = -1
    /\ delivered = <<>>
    /\ runOp = "init"
    /\ runSteps = <<>>
    /\ preLog = <<>>
    /\ preProc = "NotRunning"
    /\ preTmp = <<>>

\* The state a run handler or process event was entered in
RunRemember ==
    /\ preLog' = outLog
    /\ preProc' = procState
    /\ preTmp' = tmpFiles

\* MainWindow.run_current. Without a tab it returns at once. An exception of
\* NamedTemporaryFile or tmp.write leaves the handler where it is raised.
run_current(tmp, spawn) ==
    /\ Len(tmpFiles) < MaxRuns
    /\ RunRemember
    /\ IF edOp = "init"
       THEN /\ runOp' = "run_notab"
            /\ runSteps' = <<>>
            /\ UNCHANGED <<procState, procError, procFile, childOut, pipe, outLog,
                           statusMsg, tmpFiles, exitCode, delivered>>
       ELSE LET steps == run_steps(tmp, procState, spawn)
                started == Has(steps, "start")
            IN  /\ runOp' = IF Has(steps, "tmp_failed") THEN "run_ioerror" ELSE "run"
                /\ runSteps' = steps
                /\ tmpFiles' = IF Has(steps, "tmp_created")
                               THEN Append(tmpFiles, [content |-> IF Has(steps, "tmp_written")
                                                                  THEN edText ELSE <<>>,
                                                      complete |-> Has(steps, "tmp_written")])
                               ELSE tmpFiles
                /\ outLog' = IF Has(steps, "clear") THEN <<>> ELSE outLog
                /\ statusMsg' = IF Has(steps, "status") THEN "Ejecutando codigo..." ELSE statusMsg
                /\ procState' = IF started THEN "Starting" ELSE procState
                /\ procError' = IF started THEN "none"
                                ELSE IF Has(steps, "start_failed") THEN "FailedToStart"
                                ELSE procError
                /\ procFile' = IF started THEN Len(tmpFiles') ELSE procFile
                /\ childOut' = IF started THEN <<>> ELSE childOut
                /\ pipe' = IF started THEN <<>> ELSE pipe
                /\ delivered' = IF started THEN <<>> ELSE delivered
                /\ UNCHANGED exitCode
    /\ UNCHANGED <<hlVars, xVars, edVars, fileVars, cfgVars, sessVars>>

\* The interpreter was spawned on the temporary file; out is all it will write
\* unless it exits before. The started signal has no slot.
ProcStarted(out) ==
    /\ procState = "Starting"
    /\ procState' = "Running"
    /\ childOut' = out
    /\ runOp' = "started"
    /\ RunRemember
    /\ UNCHANGED <<procError, procFile, pipe, outLog, statusMsg, tmpFiles, exitCode,
                   delivered, runSteps>>
    /\ UNCHANGED <<hlVars, xVars, edVars, fileVars, cfgVars, sessVars>>

\* The interpreter could not be spawned: QProcess goes back to NotRunning with
\* error FailedToStart and emits errorOccurred, which has no slot; finished is
\* not emitted.
ProcFailedToStart ==
    /\ procState = "Starting"
    /\ procState' = "NotRunning"
    /\ procError' = "FailedToStart"
    /\ runOp' = "failed"
    /\ RunRemember
    /\ UNCHANGED <<procFile, childOut, pipe, outLog, statusMsg, tmpFiles, exitCode,
                   delivered, runSteps>>
    /\ UNCHANGED <<hlVars, xVars, edVars, fileVars, cfgVars, sessVars>>

\* The child writes the next n bytes of its output.
ChildWrite(n) ==
    /\ procState = "Running"
    /\ n \in 1..Len(childOut)
    /\ pipe' = pipe \o SubSeq(childOut, 1, n)
    /\ childOut' = SubSeq(childOut, n + 1, Len(childOut))
    /\ runOp' = "write"
    /\ RunRemember
    /\ UNCHANGED <<procState, procError, procFile, outLog, statusMsg, tmpFiles, exitCode,
                   delivered, runSteps>>
    /\ UNCHANGED <<hlVars, xVars, edVars, fileVars, cfgVars, sessVars>>

\* MainWindow.handle_stdout, the slot of readyReadStandardOutput: everything
\* unread is taken, decoded and appended.
handle_stdout ==
    /\ procState = "Running"
    /\ pipe # <<>>
    /\ pipe' = <<>>
    /\ delivered' = delivered \o pipe
    /\ outLog' = handle_stdout_log(outLog, pipe)
    /\ runOp' = "stdout"
    /\ RunRemember
    /\ UNCHANGED <<procState, procError, procFile, childOut, statusMsg, tmpFiles, exitCode,
                   runSteps>>
    /\ UNCHANGED <<hlVars, xVars, edVars, fileVars, cfgVars, sessVars>>

\* The child exits with code. QProcess first reads what is left in the pipe and
\* emits readyReadStandardOutput (handle_stdout runs), then emits finished:
\* MainWindow.process_finished runs with nothing left to read.
process_finished(code) ==
    /\ procState = "Running"
    /\ procState' = "NotRunning"
    /\ childOut' = <<>>
    /\ pipe' = <<>>
    /\ delivered' = delivered \o pipe
    /\ exitCode' = code
    /\ outLog' = process_finished_log(handle_stdout_log(outLog, pipe), <<>>, code)
    /\ statusMsg' = process_finished_status(statusMsg, <<>>, code)
    /\ runOp' = "finished"
    /\ RunRemember
    /\ UNCHANGED <<procError, procFile, tmpFiles, runSteps>>
    /\ UNCHANGED <<hlVars, xVars, edVars, fileVars, cfgVars, sessVars>>

\* Texts of the tab whose buffer is run.
RunSources == {<<>>, <<"a">>}

\* The fates of the temporary file of a run request.
TmpOutcomes == {"ok", "create_failed", "write_failed"}

\* What QProcess.start does about the spawn before it returns.
SpawnOutcomes == {"later", "failed_now"}

RunNext ==
    \/ edOp = "init" /\ \E t \in RunSources : EdLoad(t)
    \/ \E tmp \in TmpOutcomes, spawn \in SpawnOutcomes : run_current(tmp, spawn)
    \/ \E out \in ChildOutputs : ProcStarted(out)
    \/ ProcFailedToStart
    \/ \E n \in 1..Len(childOut) : ChildWrite(n)
    \/ handle_stdout
    \/ \E code \in ExitCodes : process_finished(code)

\* ------------------------------------------------------------------ start-up configuration

\* A configuration file as found at start-up: absent, present but unreadable
\* (open raises), present but not valid JSON (json.load raises), or holding a
\* JSON list.
FileKinds == {"absent", "unreadable", "malformed", "list"}
ConfigFile(kind, content) == [kind |-> kind, content |-> content]

\* The states of palabras_reservadas.json.
KeywordFiles ==
    {ConfigFile(k, <<>>) : k \in FileKinds}
        \cup {ConfigFile("list", << <<"f">>, <<"i", "f">> >>), ConfigFile("list", DEFAULT_KEYWORDS)}

\* KEYWORDS after the module-level load: the file's list, [] when the file
\* exists and open or json.load raises, the built-in list when it is absent.
load_keywords(file) ==
    IF file.kind = "absent" THEN DEFAULT_KEYWORDS
    ELSE IF file.kind = "list" THEN file.content
    ELSE <<>>

\* The records of temas.json: with a name or without one.
ThemeNames == {"Default", "Dark", "Light"}
ThemeRecords ==
    {[hasName |-> FALSE, name |-> ""]} \cup {[hasName |-> TRUE, name |-> n] : n \in ThemeNames}

\* The states of temas.json.
ThemeFiles ==
    {ConfigFile(k, <<>>) : k \in FileKinds \ {"list"}}
        \cup {ConfigFile("list", l) : l \in SeqUpTo(ThemeRecords, MaxThemes)}

\* themes_list: the parsed file, [] when open or json.load raised
themes_list(file) == IF file.kind = "list" THEN file.content ELSE <<>>

\* A theme of the mapping: record number idx of the file, or the built-in one.
FileTheme(idx) == [src |-> "file", idx |-> idx]
BuiltinTheme == [src |-> "builtin", idx |-> 0]

\* {t["name"]: t for t in themes_list if "name" in t}: a later record replaces
\* an earlier one of the same name.
themes_dict(list) ==
    [n \in {list[i].name : i \in {j \in 1..Len(list) : list[j].hasName}} |->
        FileTheme(CHOOSE i \in 1..Len(list) :
                      /\ list[i].hasName /\ list[i].name = n
                      /\ \A j \in (i + 1)..Len(list) : ~(list[j].hasName /\ list[j].name = n))]

\* next(iter(THEMES), None): the key inserted first, the name of the first
\* record that has one.
first_key(list) ==
    IF \E i \in 1..Len(list) : list[i].hasName
    THEN list[CHOOSE i \in 1..Len(list) :
                  list[i].hasName /\ \A j \in 1..(i - 1) : ~list[j].hasName].name
    ELSE "None"

\* A default theme taken from the first record without falling back to the
\* first key of the mapping.
default_theme_FirstRecord(list) ==
    IF "Default" \in DOMAIN themes_dict(list) THEN "Default"
    ELSE IF list # <<>> THEN (IF list[1].hasName THEN list[1].name ELSE "None")
    ELSE "None"

\* DEFAULT_THEME as chosen for a file that exists ("None" is Python's None)
default_theme(list) ==
    IF "Default" \in DOMAIN themes_dict(list) THEN "Default"
    ELSE IF list # <<>> THEN (IF list[1].hasName THEN list[1].name ELSE first_key(list))
    ELSE "None"

\* THEMES and DEFAULT_THEME after the module-level load, the built-in Default
\* theme put in when no theme was loaded.
load_themes(file) ==
    LET list == themes_list(file)
        loaded == IF file.kind = "absent" THEN <<>> ELSE themes_dict(list)
        chosen == IF file.kind = "absent" THEN "None" ELSE default_theme(list)
    IN  IF DOMAIN loaded = {}
        THEN [THEMES |-> [n \in {"Default"} |-> BuiltinTheme], DEFAULT_THEME |-> "Default"]
        ELSE [THEMES |-> loaded, DEFAULT_THEME |-> chosen]

\* list(self.themes.values())[0] is THEMES[first_theme]: the theme inserted first
first_theme ==
    IF first_key(themes_list(themeFile)) \in DOMAIN THEMES
    THEN first_key(themes_list(themeFile))
    ELSE "Default"

\* self.themes.get(name, list(self.themes.values())[0])
theme_of(name) == IF name \in DOMAIN THEMES THEN THEMES[name] ELSE THEMES[first_theme]

CfgInit ==
    /\ cfgPc = "keywords"
    /\ kwFile = [kind |-> "absent", content |-> <<>>]
    /\ KEYWORDS = <<>>
    /\ themeFile = [kind |-> "absent", content |-> <<>>]
    /\ THEMES = <<>>
    /\ DEFAULT_THEME = "None"

\* Start-up, first step: the keyword file is looked for and loaded.
LoadKeywords(file) ==
    /\ cfgPc = "keywords"
    /\ kwFile' = file
    /\ KEYWORDS' = load_keywords(file)
    /\ cfgPc' = "themes"
    /\ UNCHANGED <<themeFile, THEMES, DEFAULT_THEME>>
    /\ UNCHANGED <<hlVars, xVars, edVars, runVars, fileVars, sessVars>>

\* Start-up, second step: the theme file is looked for and loaded.
LoadThemes(file) ==
    /\ cfgPc = "themes"
    /\ themeFile' = file
    /\ THEMES' = load_themes(file).THEMES
    /\ DEFAULT_THEME' = load_themes(file).DEFAULT_THEME
    /\ cfgPc' = "done"
    /\ UNCHANGED <<kwFile, KEYWORDS>>
    /\ UNCHANGED <<hlVars, xVars, edVars, runVars, fileVars, sessVars>>

CfgNext ==
    \/ \E file \in KeywordFiles : LoadKeywords(file)
    \/ \E file \in ThemeFiles : LoadThemes(file)

\* ------------------------------------------------------------------ files and tabs

\* A path is its directory and its file name. The project root is /p; /q is
\* outside of it. NoPath is the empty string of a cancelled file dialog.
NoPath == [dir |-> "", name |-> ""]
project_root == "/p"
ProjectDirs == {"/p", "/p/s"}
PathA == [dir |-> "/p", name |-> "a.py"]
PathB == [dir |-> "/p/s", name |-> "b.py"]
PathC == [dir |-> "/q", name |-> "c.py"]
Paths == {PathA, PathB, PathC}

\* The folder /p/s of the project.
FolderS == [dir |-> "/p", name |-> "s"]

\* os.path.dirname, os.path.basename, os.path.join
dirname(path) == path.dir
basename(path) == path.name
join(dir, name) == [dir |-> dir, name |-> name]

\* The path of an entry as one string
PathString(path) == path.dir \o "/" \o path.name

\* The file system at the start: every entry with what it holds (folders hold "<dir>").
InitialDisk ==
    [p \in Paths \cup {FolderS} |-> IF p = FolderS THEN "<dir>" ELSE "text of " \o p.name]

\* What the project tree shows at the start: the entries inside the project.
TreeEntries == {PathA, PathB, FolderS}

\* os.path.exists
exists(d, path) == path \in DOMAIN d

\* The file system after path was created or overwritten with content c
Write(d, path, c) == [q \in DOMAIN d \cup {path} |-> IF q = path THEN c ELSE d[q]]

\* The candidates of new_file: nuevo.py, nuevo1.py, nuevo2.py, ...
NewName(i) == IF i = 0 THEN "nuevo.py" ELSE "nuevo" \o ToString(i) \o ".py"
Candidate(i) == [dir |-> project_root, name |-> NewName(i)]

\* The first candidate that does not exist
RECURSIVE FirstFree(_, _)
FirstFree(files, i) == IF Candidate(i) \in files THEN FirstFree(files, i + 1) ELSE i

\* The tab _load_path adds for path: the editor is styled and highlighted with
\* theme.
Tab(path, theme) ==
    [path |-> path, title |-> basename(path), modified |-> FALSE, theme |-> theme]

\* A _load_path that opens whatever path it is given.
load_path_Anywhere(tbs, c, path, readOk, theme) ==
    IF ~readOk THEN [tabs |-> tbs, cur |-> c, failed |-> TRUE]
    ELSE [tabs |-> Append(tbs, Tab(path, theme)), cur |-> IF c = 0 THEN 1 ELSE c,
          failed |-> FALSE]

\* _load_path: what becomes of the tabs and the current tab. A path outside the
\* project is refused; a file that cannot be read is an I/O failure; otherwise
\* a tab is added at the end (the first tab added becomes the current one).
load_path(tbs, c, path, readOk, theme) ==
    IF dirname(path) \notin ProjectDirs
    THEN [tabs |-> tbs, cur |-> c, failed |-> FALSE]
    ELSE IF ~readOk THEN [tabs |-> tbs, cur |-> c, failed |-> TRUE]
    ELSE [tabs |-> Append(tbs, Tab(path, theme)), cur |-> IF c = 0 THEN 1 ELSE c,
          failed |-> FALSE]

\* STATE["last_dir"] after open_file: set from the path the dialog returned,
\* before _load_path is called (r is what _load_path did).
open_last_dir(dir, path, r) == dirname(path)

FileInit ==
    /\ tabs = <<>>
    /\ cur = 0
    /\ lastDir = ""
    /\ disk = InitialDisk
    /\ fOp = "init"
    /\ fFailed = FALSE
    /\ preTabs = <<>>
    /\ preCur = 0
    /\ preLastDir = ""
    /\ preDisk = InitialDisk
    /\ fsTarget = NoPath
    /\ clipPath = NoPath
    /\ clipIsDir = FALSE

\* The state a handler of the main window was entered in; the window is open.
FileRemember ==
    /\ startPc = "running"
    /\ preTabs' = tabs
    /\ preCur' = cur
    /\ preLastDir' = lastDir

\* The answers to the unsaved-changes question of closeEvent
CloseAnswers == {"save", "discard", "cancel"}

\* What the file handlers leave alone
notFile == <<hlVars, xVars, edVars, runVars, cfgVars>>
sessButOpenDir == <<startPc, stateFile, stShape, stOpenFiles, stTheme, curTheme, written,
                    sOp, closeAsked, closeResp, preTheme, preSt, selTheme>>
clipVars == <<clipPath, clipIsDir>>

\* MainWindow.open_file: path is what the dialog returned (NoPath: cancelled).
open_file(path, readOk) ==
    /\ Len(tabs) < MaxTabs
    /\ FileRemember
    /\ fOp' = "open"
    /\ LET r == load_path(tabs, cur, path, readOk, theme_of(curTheme))
       IN  IF path = NoPath
           THEN fFailed' = FALSE /\ UNCHANGED <<tabs, cur, lastDir, lastOpenDir>>
           ELSE /\ lastDir' = open_last_dir(lastDir, path, r)
                /\ tabs' = r.tabs
                /\ cur' = r.cur
                /\ fFailed' = r.failed
                /\ lastOpenDir' = IF Len(r.tabs) > Len(tabs) THEN dirname(path) ELSE lastOpenDir
    /\ UNCHANGED <<disk, clipVars, sessButOpenDir>>
    /\ UNCHANGED <<preDisk, fsTarget>>
    /\ UNCHANGED notFile

\* MainWindow.open_from_tree: a double click on a file of the project tree.
open_from_tree(path, readOk) ==
    /\ Len(tabs) < MaxTabs
    /\ exists(disk, path)
    /\ disk[path] # "<dir>"
    /\ FileRemember
    /\ fOp' = "open_tree"
    /\ LET r == load_path(tabs, cur, path, readOk, theme_of(curTheme))
       IN  tabs' = r.tabs /\ cur' = r.cur /\ fFailed' = r.failed
    /\ UNCHANGED <<lastDir, disk, clipVars, sessVars>>
    /\ UNCHANGED <<preDisk, fsTarget>>
    /\ UNCHANGED notFile

\* The tabs and the files after save_current on tab i: the file is written and
\* the document is no longer modified, or neither when the write fails.
save_tab(tbs, d, i, writeOk) ==
    IF writeOk
    THEN [tabs |-> [tbs EXCEPT ![i].modified = FALSE], disk |-> Write(d, tbs[i].path, "saved")]
    ELSE [tabs |-> tbs, disk |-> d]

\* MainWindow.save_current. Every editor comes from _load_path and has a
\* file_path, so the branch to save_as_current is never taken.
save_current(writeOk) ==
    /\ FileRemember
    /\ fOp' = "save"
    /\ IF cur = 0
       THEN fFailed' = FALSE /\ UNCHANGED <<tabs, disk>>
       ELSE /\ fFailed' = ~writeOk
            /\ tabs' = save_tab(tabs, disk, cur, writeOk).tabs
            /\ disk' = save_tab(tabs, disk, cur, writeOk).disk
    /\ UNCHANGED <<cur, lastDir, clipVars, sessVars>>
    /\ UNCHANGED <<preDisk, fsTarget>>
    /\ UNCHANGED notFile

\* MainWindow.save_as_current: path is what the dialog returned.
save_as_current(path, writeOk) ==
    /\ FileRemember
    /\ fOp' = "save_as"
    /\ IF cur = 0 \/ path = NoPath
       THEN fFailed' = FALSE /\ UNCHANGED <<tabs, lastDir, disk, lastOpenDir>>
       ELSE /\ fFailed' = ~writeOk
            /\ tabs' = IF writeOk
                       THEN [tabs EXCEPT ![cur].path = path, ![cur].title = basename(path),
                                         ![cur].modified = FALSE]
                       ELSE tabs
            /\ lastDir' = IF writeOk THEN dirname(path) ELSE lastDir
            /\ lastOpenDir' = IF writeOk THEN dirname(path) ELSE lastOpenDir
            /\ disk' = IF writeOk THEN Write(disk, path, "saved") ELSE disk
    /\ UNCHANGED <<cur, clipVars, sessButOpenDir>>
    /\ UNCHANGED <<preDisk, fsTarget>>
    /\ UNCHANGED notFile

\* A new_file that always writes nuevo.py.
new_file_candidate_Fixed(d) == Candidate(0)

\* The candidate of new_file: the first of nuevo.py, nuevo1.py, ... that does
\* not exist.
new_file_candidate(d) == Candidate(FirstFree(DOMAIN d, 0))

\* MainWindow.new_file: the first free candidate is created in the project root
\* and loaded.
new_file(createOk, readOk) ==
    /\ Len(tabs) < MaxTabs
    /\ FirstFree(DOMAIN disk, 0) < MaxNewFiles
    /\ FileRemember
    /\ fOp' = "new"
    /\ LET candidate == new_file_candidate(disk)
           r == load_path(tabs, cur, candidate, readOk, theme_of(curTheme))
       IN  /\ fsTarget' = candidate
           /\ IF ~createOk
              THEN fFailed' = TRUE /\ UNCHANGED <<tabs, cur, disk>>
              ELSE /\ disk' = Write(disk, candidate, "# Nuevo archivo")
                   /\ tabs' = r.tabs
                   /\ cur' = r.cur
                   /\ fFailed' = r.failed
    /\ UNCHANGED <<lastDir, clipVars, sessVars>>
    /\ preDisk' = disk
    /\ UNCHANGED notFile

\* An edit of the current tab's document: it is modified.
TabEdit ==
    /\ cur # 0
    /\ ~tabs[cur].modified
    /\ tabs' = [tabs EXCEPT ![cur].modified = TRUE]
    /\ fOp' = "edit"
    /\ fFailed' = FALSE
    /\ FileRemember
    /\ UNCHANGED <<cur, lastDir, disk, clipVars, sessVars>>
    /\ UNCHANGED <<preDisk, fsTarget>>
    /\ UNCHANGED notFile

\* The user selects tab i.
SelectTab(i) ==
    /\ i # cur
    /\ cur' = i
    /\ fOp' = "select"
    /\ fFailed' = FALSE
    /\ FileRemember
    /\ UNCHANGED <<tabs, lastDir, disk, clipVars, sessVars>>
    /\ UNCHANGED <<preDisk, fsTarget>>
    /\ UNCHANGED notFile

\* MainWindow.close_tab: self.tabs.removeTab(index). The tab right of a removed
\* current tab becomes current, or the one left of it when it was the last.
close_tab(i) ==
    /\ tabs' = SubSeq(tabs, 1, i - 1) \o SubSeq(tabs, i + 1, Len(tabs))
    /\ cur' = IF i < cur THEN cur - 1
              ELSE IF i = cur THEN Min2(cur, Len(tabs) - 1)
              ELSE cur
    /\ fOp' = "close"
    /\ fFailed' = FALSE
    /\ FileRemember
    /\ UNCHANGED <<lastDir, disk, clipVars, sessVars>>
    /\ UNCHANGED <<preDisk, fsTarget>>
    /\ UNCHANGED notFile

\* ------------------------------------------------------------------ the project tree: create, copy, paste

\* os.path.splitext on the file names of the model, which all end in .py
Stems == {"a", "b", "c"}
Stem(name) == CHOOSE st \in Stems : st \o ".py" = name
Ext(name) == ".py"

\* The candidates of a pasted file: name.ext, name_1.ext, name_2.ext, ...
CopyName(base, i) == IF i = 0 THEN base ELSE Stem(base) \o "_" \o ToString(i) \o Ext(base)

\* The first candidate in folder that does not exist
RECURSIVE FirstFreeCopy(_, _, _, _)
FirstFreeCopy(files, folder, base, i) ==
    IF join(folder, CopyName(base, i)) \in files
    THEN FirstFreeCopy(files, folder, base, i + 1)
    ELSE i

\* The destination handle_paste computes for a file.
paste_dest(d, folder, base) == join(folder, CopyName(base, FirstFreeCopy(DOMAIN d, folder, base, 0)))

\* The entries shutil.copytree(src, dest) creates: dest and, under it, a copy
\* of everything under src.
RECURSIVE copytree(_, _, _)
copytree(d, src, dest) ==
    {[path |-> dest, content |-> "<dir>"]} \cup
    UNION {IF d[e] = "<dir>"
           THEN copytree(d, e, join(PathString(dest), e.name))
           ELSE {[path |-> join(PathString(dest), e.name), content |-> d[e]]} :
           e \in {q \in DOMAIN d : q.dir = PathString(src)}}

\* The file system after the entries of the set new were written.
WriteAll(d, new) ==
    [q \in DOMAIN d \cup {r.path : r \in new} |->
        IF \E r \in new : r.path = q THEN (CHOOSE r \in new : r.path = q).content ELSE d[q]]

\* The entries Copiar is used on: a file and a folder.
CopySources == {PathA, FolderS}

\* The names typed into the dialog of create_in_folder ("": nothing or blanks)
TypedNames == {"", "b.py", "main.py"}

\* MainWindow.create_in_folder on the directory folder of the tree: name and ok
\* are what the input dialog returned.
create_in_folder(folder, name, ok, createOk, readOk) ==
    /\ Len(tabs) < MaxTabs
    /\ exists(disk, folder)
    /\ disk[folder] = "<dir>"
    /\ FileRemember
    /\ preDisk' = disk
    /\ fOp' = "create"
    /\ LET target == join(PathString(folder), name)
           r == load_path(tabs, cur, target, readOk, theme_of(curTheme))
       IN  IF ~ok \/ name = ""
           THEN fsTarget' = NoPath /\ fFailed' = FALSE /\ UNCHANGED <<tabs, cur, disk>>
           ELSE /\ fsTarget' = target
                /\ IF exists(disk, target)
                   THEN fFailed' = FALSE /\ UNCHANGED <<tabs, cur, disk>>
                   ELSE IF ~createOk
                   THEN fFailed' = TRUE /\ UNCHANGED <<tabs, cur, disk>>
                   ELSE /\ disk' = Write(disk, target, "# Nuevo archivo creado")
                        /\ tabs' = r.tabs
                        /\ cur' = r.cur
                        /\ fFailed' = r.failed
    /\ UNCHANGED <<lastDir, clipVars, sessVars>>
    /\ UNCHANGED notFile

\* MainWindow.handle_copy from the context menu of the entry path.
handle_copy(path, is_dir) ==
    /\ exists(disk, path)
    /\ FileRemember
    /\ fOp' = "copy"
    /\ fFailed' = FALSE
    /\ clipPath' = path
    /\ clipIsDir' = is_dir
    /\ UNCHANGED <<tabs, cur, lastDir, disk, preDisk, fsTarget, sessVars>>
    /\ UNCHANGED notFile

\* MainWindow.handle_paste from the context menu of the entry path: into path
\* when it is a directory, next to it otherwise. copyOk: shutil does not raise.
handle_paste(path, is_dir, copyOk) ==
    /\ exists(disk, path)
    /\ FileRemember
    /\ preDisk' = disk
    /\ fOp' = "paste"
    /\ LET dest_folder == IF is_dir THEN PathString(path) ELSE dirname(path)
           base == basename(clipPath)
           dest == IF clipIsDir THEN join(dest_folder, base) ELSE paste_dest(disk, dest_folder, base)
       IN  IF clipPath = NoPath
           THEN fsTarget' = NoPath /\ fFailed' = FALSE /\ UNCHANGED disk
           ELSE /\ IF clipIsDir THEN TRUE
                   ELSE FirstFreeCopy(DOMAIN disk, dest_folder, base, 0) <= MaxCopies
                /\ fsTarget' = dest
                /\ IF clipIsDir /\ exists(disk, dest)
                   THEN fFailed' = FALSE /\ UNCHANGED disk
                   ELSE IF ~copyOk
                   THEN fFailed' = TRUE /\ UNCHANGED disk
                   ELSE /\ fFailed' = FALSE
                        /\ disk' = IF clipIsDir
                                    THEN WriteAll(disk, copytree(disk, clipPath, dest))
                                    ELSE Write(disk, dest, disk[clipPath])
    /\ UNCHANGED <<tabs, cur, lastDir, clipVars, sessVars>>
    /\ UNCHANGED notFile

\* The context menu and the file menu of the project tree.
FsNext ==
    \/ \E createOk \in BOOLEAN, readOk \in BOOLEAN : new_file(createOk, readOk)
    \/ \E folder \in TreeEntries, name \in TypedNames, ok \in BOOLEAN,
           createOk \in BOOLEAN, readOk \in BOOLEAN :
           create_in_folder(folder, name, ok, createOk, readOk)
    \/ \E path \in CopySources : handle_copy(path, disk[path] = "<dir>")
    \/ \E path \in TreeEntries, copyOk \in BOOLEAN :
           handle_paste(path, disk[path] = "<dir>", copyOk)

\* ------------------------------------------------------------------ session state and themes

\* estado.json as found at start-up: absent, unreadable (open raises),
\* malformed (json.load raises), or valid JSON ("value"). The shape of a JSON
\* value: a record with the three keys, the record {} without any key, a
\* value that is not a record (a list), or a record whose open_files is a
\* number.
StateKinds == {"absent", "unreadable", "malformed", "value"}
StateShapes == {"record", "empty_record", "list", "bad_open_files"}
StateFile(kind, shape, files, theme) ==
    [kind |-> kind, shape |-> shape, open_files |-> files, theme |-> theme, last_dir |-> ""]
StateAbsent == StateFile("absent", "record", <<>>, "")

\* A file of the project that was deleted since the last session.
GonePath == [dir |-> "/p", name |-> "gone.py"]

\* The open_files lists and theme names of the state files considered.
SavedOpenFiles == {<<>>, <<PathA>>, <<PathA, PathC>>, <<GonePath, PathB>>}
SavedThemes == {"Default", "Dark", "Gone"}

\* The states of estado.json.
StateFiles ==
    {StateFile(k, "record", <<>>, "") : k \in StateKinds \ {"value"}}
        \cup {StateFile("value", "record", f, t) : f \in SavedOpenFiles, t \in SavedThemes}
        \cup {StateFile("value", sh, <<>>, "Dark") : sh \in StateShapes \ {"record"}}

\* STATE after the module-level load: json.load's value, or the default record
\* when the file is absent or open or json.load raised.
load_state(file) ==
    IF file.kind = "value"
    THEN [shape |-> file.shape, open_files |-> file.open_files, theme |-> file.theme,
          last_dir |-> file.last_dir]
    ELSE [shape |-> "record", open_files |-> <<>>, theme |-> DEFAULT_THEME, last_dir |-> ""]

\* self.state.get("current_theme", DEFAULT_THEME) on a record
state_get_theme(shape, theme) == IF shape = "empty_record" THEN DEFAULT_THEME ELSE theme

\* MainWindow.__init__ raises: STATE is not a record (it has no get), or its
\* open_files cannot be iterated.
init_raises(shape) == shape \in {"list", "bad_open_files"}

\* The loop of MainWindow.__init__ over the saved open files, from file number
\* i on: a path that is a file and lies inside the project is loaded.
RECURSIVE reopen(_, _, _, _, _, _, _)
reopen(tbs, c, files, i, d, readOk, theme) ==
    IF i > Len(files) THEN [tabs |-> tbs, cur |-> c]
    ELSE IF exists(d, files[i]) /\ d[files[i]] # "<dir>" /\ dirname(files[i]) \in ProjectDirs
         THEN LET r == load_path(tbs, c, files[i], readOk, theme)
              IN  reopen(r.tabs, r.cur, files, i + 1, d, readOk, theme)
         ELSE reopen(tbs, c, files, i + 1, d, readOk, theme)

\* Before start-up: nothing loaded, no window.
SessIdle ==
    /\ startPc = "state"
    /\ stateFile = StateAbsent
    /\ stShape = "record"
    /\ stOpenFiles = <<>>
    /\ stTheme = "None"
    /\ curTheme = "None"
    /\ selTheme = "None"
    /\ written = <<>>
    /\ sOp = "init"
    /\ closeAsked = FALSE
    /\ closeResp = "none"
    /\ lastOpenDir = ""
    /\ preTheme = "None"
    /\ preSt = [open_files |-> <<>>, theme |-> "None"]

\* The session state a handler was entered in.
SessRemember ==
    /\ preTheme' = curTheme
    /\ preSt' = [open_files |-> stOpenFiles, theme |-> stTheme]

\* Start-up, third step: the state file is looked for and loaded.
LoadState(file) ==
    /\ cfgPc = "done"
    /\ startPc = "state"
    /\ stateFile' = file
    /\ stShape' = load_state(file).shape
    /\ stOpenFiles' = load_state(file).open_files
    /\ stTheme' = load_state(file).theme
    /\ lastDir' = load_state(file).last_dir
    /\ startPc' = "window"
    /\ sOp' = "load_state"
    /\ UNCHANGED <<curTheme, selTheme, written, closeAsked, closeResp, lastOpenDir, preTheme, preSt>>
    /\ UNCHANGED <<tabs, cur, disk, fOp, fFailed, preTabs, preCur, preLastDir, preDisk, fsTarget,
                   clipVars>>
    /\ UNCHANGED notFile

\* Start-up, last step: MainWindow.__init__ takes the theme name from the
\* state, applies it and reopens the saved files of the project; an exception
\* it raises ends the program.
MainWindowInit(readOk) ==
    /\ startPc = "window"
    /\ sOp' = "window"
    /\ IF init_raises(stShape)
       THEN /\ startPc' = "crashed"
            /\ curTheme' = IF stShape = "list" THEN curTheme ELSE state_get_theme(stShape, stTheme)
            /\ UNCHANGED <<tabs, cur>>
       ELSE /\ startPc' = "running"
            /\ curTheme' = state_get_theme(stShape, stTheme)
            /\ LET r == reopen(tabs, cur, stOpenFiles, 1, disk, readOk,
                               theme_of(state_get_theme(stShape, stTheme)))
               IN  tabs' = r.tabs /\ cur' = r.cur
    /\ UNCHANGED <<stateFile, stShape, stOpenFiles, stTheme, selTheme, written, closeAsked,
                   closeResp, lastOpenDir, preTheme, preSt>>
    /\ UNCHANGED <<lastDir, disk, fOp, fFailed, preTabs, preCur, preLastDir, preDisk, fsTarget,
                   clipVars>>
    /\ UNCHANGED notFile

\* An apply_theme that leaves the open editors as they are.
restyle_None(tbs, theme) == tbs

\* The loop of apply_theme over the tabs: every editor gets the style sheet of
\* theme and a highlighter made from it (the highlighter made last is the one
\* whose formats stay on the document).
restyle(tbs, theme) == [i \in 1..Len(tbs) |-> [tbs[i] EXCEPT !.theme = theme]]

\* MainWindow.open_theme_dialog: the dialog lists the keys of the mapping; with
\* Aplicar the selected name goes to apply_theme, with Cancelar nothing happens.
open_theme_dialog(accepted, name) ==
    /\ FileRemember
    /\ SessRemember
    /\ fOp' = "theme"
    /\ fFailed' = FALSE
    /\ selTheme' = name
    /\ IF accepted
       THEN /\ sOp' = "theme"
            /\ curTheme' = name
            /\ tabs' = restyle(tabs, theme_of(name))
       ELSE /\ sOp' = "theme_cancel"
            /\ UNCHANGED <<curTheme, tabs>>
    /\ UNCHANGED <<startPc, stateFile, stShape, stOpenFiles, stTheme, written, closeAsked,
                   closeResp, lastOpenDir>>
    /\ UNCHANGED <<cur, lastDir, disk, clipVars>>
    /\ UNCHANGED <<preDisk, fsTarget>>
    /\ UNCHANGED notFile

\* A closeEvent that asks about every tab that has a file.
unsaved_AllTabs(tbs) == 1..Len(tbs)

\* The tabs closeEvent collects as unsaved: those whose document is modified.
unsaved(tbs) == {i \in 1..Len(tbs) : tbs[i].modified}

\* The Save branch of closeEvent from tab i on: each tab of the unsaved list is
\* made current and saved with save_current.
RECURSIVE save_unsaved(_, _, _, _, _, _)
save_unsaved(tbs, c, d, i, todo, writeOk) ==
    IF i > Len(tbs) THEN [tabs |-> tbs, cur |-> c, disk |-> d]
    ELSE IF i \in todo
         THEN LET r == save_tab(tbs, d, i, writeOk)
              IN  save_unsaved(r.tabs, i, r.disk, i + 1, todo, writeOk)
         ELSE save_unsaved(tbs, c, d, i + 1, todo, writeOk)

\* The open_files closeEvent stores: the paths of the tabs inside the project,
\* in tab order.
inside_paths(tbs) ==
    LET inside == SelectSeq(tbs, LAMBDA t : dirname(t.path) \in ProjectDirs)
    IN  [i \in 1..Len(inside) |-> inside[i].path]

\* MainWindow.closeEvent: resp is the answer to the unsaved-changes question
\* (asked only when a tab is unsaved), writeOk whether the saves succeed,
\* stateOk whether estado.json can be written.
closeEvent(resp, writeOk, stateOk) ==
    /\ FileRemember
    /\ SessRemember
    /\ fOp' = "closeEvent"
    /\ sOp' = "close"
    /\ closeAsked' = (unsaved(tabs) # {})
    /\ closeResp' = IF unsaved(tabs) # {} THEN resp ELSE "none"
    /\ unsaved(tabs) = {} => resp = "discard" /\ writeOk
    /\ resp # "save" => writeOk
    /\ IF unsaved(tabs) # {} /\ resp = "cancel"
       THEN /\ fFailed' = FALSE
            /\ UNCHANGED <<tabs, cur, disk, startPc, stOpenFiles, stTheme, written>>
       ELSE LET r == IF unsaved(tabs) # {} /\ resp = "save"
                     THEN save_unsaved(tabs, cur, disk, 1, unsaved(tabs), writeOk)
                     ELSE [tabs |-> tabs, cur |-> cur, disk |-> disk]
            IN  /\ tabs' = r.tabs
                /\ cur' = r.cur
                /\ disk' = r.disk
                /\ fFailed' = (unsaved(tabs) # {} /\ resp = "save" /\ ~writeOk)
                /\ stOpenFiles' = inside_paths(r.tabs)
                /\ stTheme' = curTheme
                /\ written' = IF stateOk
                              THEN <<[open_files |-> inside_paths(r.tabs),
                                      current_theme |-> curTheme, last_dir |-> lastDir]>>
                              ELSE written
                /\ startPc' = "closed"
    /\ UNCHANGED <<stateFile, stShape, curTheme, selTheme, lastOpenDir>>
    /\ UNCHANGED <<lastDir, clipVars>>
    /\ preDisk' = disk
    /\ UNCHANGED fsTarget
    /\ UNCHANGED notFile

FileNext ==
    \/ \E path \in Paths \cup {NoPath}, readOk \in BOOLEAN : open_file(path, readOk)
    \/ \E path \in Paths, readOk \in BOOLEAN : open_from_tree(path, readOk)
    \/ \E createOk \in BOOLEAN, readOk \in BOOLEAN : new_file(createOk, readOk)
    \/ \E i \in 1..Len(tabs) : SelectTab(i)
    \/ \E i \in 1..Len(tabs) : close_tab(i)

\* Opening, editing and saving.
SaveNext ==
    \/ \E path \in Paths \cup {NoPath}, readOk \in BOOLEAN : open_file(path, readOk)
    \/ TabEdit
    \/ \E writeOk \in BOOLEAN : save_current(writeOk)
    \/ \E path \in Paths \cup {NoPath}, writeOk \in BOOLEAN : save_as_current(path, writeOk)

\* Opening, editing and closing tabs, and closing the window.
CloseNext ==
    \/ \E path \in Paths \cup {NoPath}, readOk \in BOOLEAN : open_file(path, readOk)
    \/ TabEdit
    \/ \E i \in 1..Len(tabs) : close_tab(i)
    \/ \E resp \in CloseAnswers, writeOk \in BOOLEAN, stateOk \in BOOLEAN :
           closeEvent(resp, writeOk, stateOk)

\* Opening files and choosing themes.
ThemeNext ==
    \/ \E path \in Paths \cup {NoPath}, readOk \in BOOLEAN : open_file(path, readOk)
    \/ \E path \in Paths, readOk \in BOOLEAN : open_from_tree(path, readOk)
    \/ \E accepted \in BOOLEAN, name \in DOMAIN THEMES : open_theme_dialog(accepted, name)
    \/ \E i \in 1..Len(tabs) : close_tab(i)

\* Start-up from the three configuration files to the main window.
StartNext ==
    \/ \E file \in KeywordFiles : LoadKeywords(file)
    \/ \E file \in ThemeFiles : LoadThemes(file)
    \/ \E file \in StateFiles : LoadState(file)
    \/ \E readOk \in BOOLEAN : MainWindowInit(readOk)

\* temas.json with the two themes Dark and Light.
ThemeFileTwo ==
    ConfigFile("list", <<[hasName |-> TRUE, name |-> "Dark"], [hasName |-> TRUE, name |-> "Light"]>>)

\* The configuration after start-up without a keyword file and with the two
\* themes.
CfgLoaded ==
    /\ cfgPc = "done"
    /\ kwFile = ConfigFile("absent", <<>>)
    /\ KEYWORDS = load_keywords(ConfigFile("absent", <<>>))
    /\ themeFile = ThemeFileTwo
    /\ THEMES = load_themes(ThemeFileTwo).THEMES
    /\ DEFAULT_THEME = load_themes(ThemeFileTwo).DEFAULT_THEME

\* estado.json naming a theme that temas.json does not have.
StateFileGone == StateFile("value", "record", <<>>, "Gone")

\* The session after start-up with the state file given: the window is open
\* without tabs.
SessStartedWith(file) ==
    /\ startPc = "running"
    /\ stateFile = file
    /\ stShape = "record"
    /\ stOpenFiles = <<>>
    /\ stTheme = IF file.kind = "value" THEN file.theme ELSE load_themes(ThemeFileTwo).DEFAULT_THEME
    /\ curTheme = IF file.kind = "value" THEN file.theme ELSE load_themes(ThemeFileTwo).DEFAULT_THEME
    /\ selTheme = "None"
    /\ written = <<>>
    /\ sOp = "window"
    /\ closeAsked = FALSE
    /\ closeResp = "none"
    /\ lastOpenDir = ""
    /\ preTheme = "None"
    /\ preSt = [open_files |-> <<>>, theme |-> "None"]

\* After start-up without a state file.
SessStarted == SessStartedWith(StateAbsent)

\* After start-up without a state file, or with one that names a theme the
\* mapping does not have.
SessStartedAnyTheme == \E file \in {StateAbsent, StateFileGone} : SessStartedWith(file)

\* The parts of the application a specification does not exercise.
AppIdle == RunInit /\ FileInit /\ CfgInit /\ SessIdle


\* ------------------------------------------------------------------ specifications

\* The parts a specification does not exercise stay in their initial state.
HLIdle == hlText = <<>> /\ hlKeywords = DEFAULT_KEYWORDS /\ hlSpans = <<>> /\ hlSpansP = <<>>
XIdle == xIn = <<>> /\ xKey = ENCRYPTION_KEY /\ xOut = <<>> /\ xpc = "start"

\* The highlighter re-run on every change of a one-block document.
InitHL == HLInit /\ XIdle /\ EdInit /\ AppIdle
SpecHL == InitHL /\ [][HLNext]_vars

\* xor_cipher applied once and twice to a text under a key.
InitXor == XInit /\ HLIdle /\ EdInit /\ AppIdle
SpecXor == InitXor /\ [][XNext]_vars

\* One code editor under a load, cursor movements, Enter, Tab and Shift+Tab.
InitEd == EdInit /\ HLIdle /\ XIdle /\ AppIdle
SpecEd == InitEd /\ [][EdNext]_vars

\* One code editor under a load, cursor movements and go-to-line.
InitGoto == EdInit /\ HLIdle /\ XIdle /\ AppIdle
SpecGoto == InitGoto /\ [][GotoNext]_vars

\* One code editor under a load, typing, Backspace, Enter, Tab, Shift+Tab,
\* encryption and decryption.
InitBuf == EdInit /\ HLIdle /\ XIdle /\ AppIdle
SpecBuf == InitBuf /\ [][BufNext]_vars

\* The run bridge: one tab, run requests, the child process and its output.
InitRun == EdInit /\ HLIdle /\ XIdle /\ RunInit /\ FileInit /\ CfgInit /\ SessIdle
SpecRun == InitRun /\ [][RunNext]_vars

\* The tabs of the main window under open, new file, selection and closing,
\* with file operations that may fail.
InitFile == EdInit /\ HLIdle /\ XIdle /\ RunInit /\ FileInit /\ CfgLoaded /\ SessStarted
SpecFile == InitFile /\ [][FileNext]_vars

\* The tabs of the main window under open, edits, save and save as, with file
\* operations that may fail.
InitSave == EdInit /\ HLIdle /\ XIdle /\ RunInit /\ FileInit /\ CfgLoaded /\ SessStarted
SpecSave == InitSave /\ [][SaveNext]_vars

\* The tabs of the main window under open, edits, closing of tabs and close
\* requests for the window, with file operations that may fail.
InitClose == EdInit /\ HLIdle /\ XIdle /\ RunInit /\ FileInit /\ CfgLoaded /\ SessStarted
SpecClose == InitClose /\ [][CloseNext]_vars

\* The tabs of the main window under open, theme selection and closing of tabs.
InitTheme == EdInit /\ HLIdle /\ XIdle /\ RunInit /\ FileInit /\ CfgLoaded /\ SessStartedAnyTheme
SpecTheme == InitTheme /\ [][ThemeNext]_vars

\* The project tree under new file, create, copy and paste, with operations
\* that may fail.
InitFs == EdInit /\ HLIdle /\ XIdle /\ RunInit /\ FileInit /\ CfgLoaded /\ SessStarted
SpecFs == InitFs /\ [][FsNext]_vars

\* Start-up: the keyword file, the theme file, the state file, the main window.
InitStart == EdInit /\ HLIdle /\ XIdle /\ RunInit /\ FileInit /\ CfgInit /\ SessIdle
SpecStart == InitStart /\ [][StartNext]_vars

\* Start-up: the keyword file, then the theme file.
InitCfg == EdInit /\ HLIdle /\ XIdle /\ RunInit /\ FileInit /\ CfgInit /\ SessIdle
SpecCfg == InitCfg /\ [][CfgNext]_vars

\* ------------------------------------------------------------------ properties: highlighter

\* Some rule \bw\b of the list kws matches at offset s.
KeywordMatchAt(text, kws, s) == \E k \in 1..Len(kws) : WordAt(text, kws[k], s)

\* A keyword span among the calls covers offset off.
KeywordSpanOver(calls, off) ==
    \E i \in 1..Len(calls) :
        /\ calls[i].fmt = "keyword"
        /\ calls[i].start <= off /\ off < calls[i].start + calls[i].length

InsideQuotedString(text, s) ==
    \E i \in 1..Len(StringMatches(text, 0)) :
        LET m == StringMatches(text, 0)[i]
        IN  m.start < s /\ s < m.start + m.length - 1

\* C2: string precedence. A keyword match inside a properly quoted string gets
\* no keyword span, in neither highlighter.
C2_StringPrecedence ==
    \A s \in 0..(Len(hlText) - 1) :
        InsideQuotedString(hlText, s) =>
            /\ KeywordMatchAt(hlText, hlKeywords, s) => ~KeywordSpanOver(hlSpans, s)
            /\ KeywordMatchAt(hlText, DEFAULT_KEYWORDS, s) => FormatAt(hlSpansP, s) # "keyword"

\* Two spans share a character offset.
Overlap(a, b) == a.start < b.start + b.length /\ b.start < a.start + a.length

\* C3: the spans highlightBlock of ide.py produces for a line are pairwise
\* non-overlapping.
C3_SpansDisjoint ==
    \A i, j \in 1..Len(hlSpans) : i < j => ~Overlap(hlSpans[i], hlSpans[j])

\* C4: a line <keyword> ... # <rest> without quote characters, whose only
\* keyword match before the '#' is the one at offset 0, gets exactly the comment
\* span from the '#' to the end of the line and the keyword span at offset 0;
\* for "def foo():  # start" these are (12, 7) and (0, 3).
C4_KeywordThenComment ==
    /\ (hlText = ExampleLine /\ hlKeywords = DEFAULT_KEYWORDS) =>
           hlSpans = <<Span(12, 7, "comment"), Span(0, 3, "keyword")>>
    /\ \A k \in 1..Len(hlKeywords) :
           LET h == FindChar(hlText, "#", 0)
           IN  ( /\ h < Len(hlText)
                 /\ \A i \in 1..Len(hlText) : hlText[i] \notin Quotes
                 /\ WordAt(hlText, hlKeywords[k], 0)
                 /\ \A k2 \in 1..Len(hlKeywords) : WordAt(hlText, hlKeywords[k2], 0) => k2 = k
                 /\ \A s \in 1..(h - 1) : ~KeywordMatchAt(hlText, hlKeywords, s) )
               => hlSpans = <<Span(h, Len(hlText) - h, "comment"),
                              Span(0, Len(hlKeywords[k]), "keyword")>>

\* The scenario line has been highlighted with the built-in keywords.
C4_Witness ==
    /\ hlText = ExampleLine
    /\ hlKeywords = DEFAULT_KEYWORDS
    /\ Len(hlSpans) = 2

\* ------------------------------------------------------------------ properties: XOR cipher

\* C5: XOR involution. xor_cipher(xor_cipher(text, k), k) = text for every text
\* and every integer key k: both applications return, and the second returns text.
C5_XorInvolution ==
    /\ xpc # "raised"
    /\ xpc = "twice" => xOut = xIn

\* C6: xor_cipher has no error outcome: it never raises and returns a text of
\* the length of its argument.
C6_XorNeverRaises ==
    /\ xpc \in {"once", "twice"} => Len(xOut) = Len(xIn)
    /\ xpc # "raised"

\* ------------------------------------------------------------------ properties: code editor

\* The blocks of a document, in order
RECURSIVE Lines(_)
Lines(text) ==
    IF FindChar(text, "\n", 0) >= Len(text) THEN <<text>>
    ELSE <<Slice(text, 0, FindChar(text, "\n", 0))>>
             \o Lines(Slice(text, FindChar(text, "\n", 0) + 1, Len(text)))

\* 1-based number of the line holding offset pos
LineIndex(text, pos) == 1 + Cardinality({i \in 1..pos : text[i] = "\n"})

\* Column of offset pos within its line
Column(text, pos) == Cardinality({i \in 1..pos : \A j \in i..pos : text[j] # "\n"})

\* Offset of the first character of line n (1-based)
RECURSIVE LineStart(_, _)
LineStart(text, n) ==
    IF n <= 1 THEN 0 ELSE LineStart(text, n - 1) + Len(Lines(text)[n - 1]) + 1

\* lines with line k replaced by the lines of new
SpliceLine(lines, k, new) ==
    SubSeq(lines, 1, k - 1) \o new \o SubSeq(lines, k + 1, Len(lines))

\* C7, as claimed: Tab followed by Shift+Tab on the same line restores the
\* line's content, wherever in the line the cursor was when Tab was pressed.
C7_IndentOutdentRoundTrip ==
    (edOp = "backtab" /\ tabFrom # <<>>) =>
        Lines(edText)[LineIndex(edText, edPos)]
            = Lines(tabFrom[1])[LineIndex(tabFrom[1], tabFrom[2])]

\* C7, amended: Tab followed by Shift+Tab restores the document exactly when the
\* cursor was inside or directly after the line's leading spaces at the Tab.
C7_RoundTripInLeadingSpaces ==
    (edOp = "backtab" /\ tabFrom # <<>>) =>
        LET line == Lines(tabFrom[1])[LineIndex(tabFrom[1], tabFrom[2])]
            inIndent == Column(tabFrom[1], tabFrom[2]) <= LeadingSpaces(line)
        IN  /\ inIndent => edText = tabFrom[1]
            /\ ~inIndent => Lines(edText)[LineIndex(edText, edPos)] # line

\* Tab was pressed at the start of a line with text on it, then Shift+Tab, and
\* the document is the one before the Tab.
C7_Witness ==
    /\ edOp = "backtab"
    /\ tabFrom # <<>>
    /\ edText = tabFrom[1]
    /\ Column(tabFrom[1], tabFrom[2]) = 0
    /\ Lines(edText)[LineIndex(edText, edPos)] # <<>>

\* C8: Shift+Tab on a line with fewer than 4 leading spaces leaves the document
\* unchanged; otherwise it removes the first 4 characters of that line and
\* changes no other line.
C8_OutdentFrame ==
    edOp = "backtab" =>
        LET lines == Lines(preText)
            k == LineIndex(preText, prePos)
        IN  IF LeadingSpaces(lines[k]) < 4
            THEN edText = preText
            ELSE Lines(edText) = SpliceLine(lines, k, <<SubSeq(lines[k], 5, Len(lines[k]))>>)

\* Shift+Tab removed the indentation of one line of a document of several lines.
C8_Witness ==
    /\ edOp = "backtab"
    /\ edText # preText
    /\ Len(Lines(preText)) > 1

\* The indentation the claim expects after Enter on line
WantedIndent(line) ==
    LeadingSpaces(line)
        + (IF \E i \in 1..Len(line) :
                  line[i] = ":" /\ \A j \in (i + 1)..Len(line) : line[j] = " "
           THEN 4 ELSE 0)

\* C9, as claimed: after Enter on a line with L leading spaces the new line has
\* exactly L leading spaces (L + 4 after a trailing ':') and the cursor is right
\* after them, wherever in the line the cursor was.
C9_NewlineAutoIndent ==
    edOp = "enter" =>
        LET want == WantedIndent(Lines(preText)[LineIndex(preText, prePos)])
            k == LineIndex(edText, edPos)
        IN  /\ Len(Lines(edText)) = Len(Lines(preText)) + 1
            /\ k = LineIndex(preText, prePos) + 1
            /\ LeadingSpaces(Lines(edText)[k]) = want
            /\ Column(edText, edPos) = want

\* C9, amended: Enter splits the line at the cursor and puts L (L + 4 after a
\* trailing ':') spaces in front of the part that was right of the cursor; the
\* cursor is right after the inserted spaces, and the new line has exactly that
\* many leading spaces when the part right of the cursor does not start with a space.
C9_NewlineInsertsIndent ==
    edOp = "enter" =>
        LET lines == Lines(preText)
            k == LineIndex(preText, prePos)
            col == Column(preText, prePos)
            want == WantedIndent(lines[k])
            left == SubSeq(lines[k], 1, col)
            right == SubSeq(lines[k], col + 1, Len(lines[k]))
        IN  /\ Lines(edText) = SpliceLine(lines, k, <<left, Spaces(want) \o right>>)
            /\ LineIndex(edText, edPos) = k + 1
            /\ Column(edText, edPos) = want
            /\ (right = <<>> \/ Head(right) # " ") =>
                   LeadingSpaces(Lines(edText)[k + 1]) = want

\* Enter was pressed before the ':' that ends an indented line.
C9_Witness ==
    /\ edOp = "enter"
    /\ LET line == Lines(preText)[LineIndex(preText, prePos)]
       IN  /\ LeadingSpaces(line) > 0
           /\ line[Len(line)] = ":"
           /\ Column(preText, prePos) = Len(line) - 1

\* C10, as claimed: go-to-line with n outside [1, lineCount] fails with an
\* OutOfRange error and leaves the cursor where it was; with n inside it puts
\* the cursor at the start of line n.
C10_GotoLineOutOfRange ==
    edOp = "goto" =>
        /\ gotoWant \notin 1..Len(Lines(edText)) =>
               gotoErr = "OutOfRange" /\ edPos = prePos
        /\ (gotoWant \in 1..Len(Lines(edText)) /\ gotoOk) =>
               gotoErr = "none" /\ edPos = LineStart(edText, gotoWant)

\* C10, amended: go-to-line never fails. The dialog only returns numbers of
\* [1, lineCount]; an accepted number n puts the cursor at the start of line n,
\* a cancelled dialog leaves the cursor where it was; the document is unchanged.
C10_GotoLineInRange ==
    edOp = "goto" =>
        /\ gotoErr = "none"
        /\ gotoLine \in 1..Len(Lines(edText))
        /\ gotoWant \in 1..Len(Lines(edText)) => gotoLine = gotoWant
        /\ edText = preText
        /\ gotoOk => edPos = LineStart(edText, gotoLine)
        /\ ~gotoOk => edPos = prePos

\* Line 10 of the ten-line buffer was requested and the cursor is at the start
\* of the last line.
C10_Witness ==
    /\ edOp = "goto"
    /\ gotoOk
    /\ edText = TenLines
    /\ gotoWant = 10
    /\ edPos = 18
    /\ prePos # 18

\* C11: the number go-to-line moves the cursor to was restricted to
\* [1, line count] by the dialog that asked for it, so an accepted request puts
\* the cursor at the start of an existing line (even when the user aimed outside
\* the range), and a cancelled request leaves the cursor where it was.
C11_GotoLineClamped ==
    edOp = "goto" =>
        /\ gotoLine >= 1
        /\ gotoLine <= Len(Lines(preText))
        /\ gotoOk => \E n \in 1..Len(Lines(preText)) :
                         n = gotoLine /\ edPos = LineStart(preText, n)
        /\ ~gotoOk => edPos = prePos /\ edText = preText

\* The user aimed one past the last line of a document of several lines, the
\* dialog was accepted and the cursor moved.
C11_Witness ==
    /\ edOp = "goto"
    /\ gotoOk
    /\ Len(Lines(preText)) > 1
    /\ gotoWant = Len(Lines(preText)) + 1
    /\ edPos # prePos

IsFinalMessage(tok) == tok \in {FinalMessage(code) : code \in ExitCodes}

\* C13: when the process of a run has exited, exactly one final message is in
\* the output log; it was appended to what the log held, is the last thing in
\* the log and starts a paragraph of its own, after all the output of the run
\* (nothing is left unread); it is the success message if and only if the exit
\* code is 0 and names the exit code otherwise.
C13_OneFinalMessage ==
    runOp = "finished" =>
        /\ outLog # <<>>
        /\ IsFinalMessage(outLog[Len(outLog)])
        /\ Cardinality({i \in 1..Len(outLog) : IsFinalMessage(outLog[i])}) = 1
        /\ Len(outLog) > 1 => outLog[Len(outLog) - 1] = "\n"
        /\ outLog[Len(outLog)] = SuccessMessage <=> exitCode = 0
        /\ exitCode # 0 => outLog[Len(outLog)] = FailureMessage(exitCode)
        /\ pipe = <<>> /\ childOut = <<>>
        /\ Len(preLog) < Len(outLog) /\ SubSeq(outLog, 1, Len(preLog)) = preLog

\* The process exited with a non-zero code while output it had written was
\* still unread.
C13_Witness ==
    /\ runOp = "finished"
    /\ exitCode = 2
    /\ Len(delivered) = 3
    /\ preLog = <<>>
    /\ Len(outLog) > 1

\* C14, as claimed: while the process of a run request is running, the output
\* log is the text of the bytes delivered so far, chunk after chunk with
\* nothing added or left out, however the output was split into chunks (with a
\* single run request, so that nothing else has touched the log).
C14_LogIsConcatenation ==
    (Len(tmpFiles) = 1 /\ procState = "Running" /\ ~decode(delivered).raised) =>
        outLog = decode(delivered).text

\* C15, as claimed: a run request issued while the process of an earlier run
\* has not finished has no effect on the active run: its output log, its
\* temporary file and its process are as they were.
C15_SecondRunHasNoEffect ==
    (runOp = "run" /\ preProc # "NotRunning") =>
        /\ outLog = preLog
        /\ procState = preProc
        /\ procFile \in 1..Len(preTmp)
        /\ tmpFiles[procFile] = preTmp[procFile]

\* C16, as claimed: when the interpreter could not be spawned, the failure came
\* to light within the run request itself and the user has been told: the
\* status bar no longer says that the code is being executed and the output
\* log is not left empty.
C16_LaunchErrorReported ==
    procError = "FailedToStart" =>
        /\ runOp = "run"
        /\ statusMsg # "Ejecutando codigo..."
        /\ outLog # <<>>

\* C17: a run request with an open tab whose temporary file was written has
\* added one new file holding the buffer's full text, and a process is started
\* only after that and on that file; a request whose temporary file could not
\* be created or written has started no process, has not reached the start of
\* the process and has left the output log as it was.
C17_TempFileBeforeSpawn ==
    /\ runOp = "run" =>
           /\ Len(tmpFiles) = Len(preTmp) + 1
           /\ SubSeq(tmpFiles, 1, Len(preTmp)) = preTmp
           /\ tmpFiles[Len(tmpFiles)] = [content |-> edText, complete |-> TRUE]
           /\ \A i \in 1..Len(runSteps) :
                  runSteps[i] \in {"start", "start_failed", "start_ignored", "clear"} =>
                      \E j \in 1..(i - 1) : runSteps[j] = "tmp_written"
           /\ Has(runSteps, "start") => procState = "Starting" /\ procFile = Len(tmpFiles)
           /\ ~Has(runSteps, "start") => procState = preProc
    /\ runOp = "run_ioerror" =>
           /\ procState = preProc
           /\ outLog = preLog
           /\ ~Has(runSteps, "start") /\ ~Has(runSteps, "start_failed")
           /\ \A i \in 1..Len(preTmp) : tmpFiles[i] = preTmp[i]
           /\ \A i \in 1..Len(tmpFiles) : i > Len(preTmp) => procFile # i

\* The temporary file of a run request could not be written while the output
\* log held the output of an earlier run.
C17_Witness ==
    /\ runOp = "run_ioerror"
    /\ Has(runSteps, "tmp_created")
    /\ preLog # <<>>
    /\ edText # <<>>

\* ------------------------------------------------------------------ properties: files

\* C18, as claimed: after a handler (open, save, save as, new file) in which a
\* file operation failed, the open tabs with their paths, titles and modified
\* flags, the current tab and last_dir are what they were before it.
C18_FailedFileOpChangesNothing ==
    fFailed => tabs = preTabs /\ cur = preCur /\ lastDir = preLastDir

\* ------------------------------------------------------------------ properties: configuration

\* C19, as claimed: once the keywords are loaded, a keyword file that was
\* missing, unreadable or not valid JSON has left KEYWORDS at the built-in
\* default list.
C19_KeywordFallback ==
    (cfgPc # "keywords" /\ kwFile.kind \in {"absent", "unreadable", "malformed"}) =>
        KEYWORDS = DEFAULT_KEYWORDS

\* The names of the records of a theme file
NamedThemes(file) ==
    {file.content[i].name : i \in {j \in 1..Len(file.content) : file.content[j].hasName}}

\* C20: after theme loading, whatever the theme file was, the theme mapping is
\* not empty and the default theme name is one of its keys; the keys are the
\* names of the file's records when there are any; when the file is absent,
\* unreadable or without a named record, the mapping is the built-in Default
\* theme alone and it is the default.
C20_DefaultThemeIsKey ==
    cfgPc = "done" =>
        /\ DOMAIN THEMES # {}
        /\ DEFAULT_THEME \in DOMAIN THEMES
        /\ (themeFile.kind = "list" /\ NamedThemes(themeFile) # {}) =>
               /\ DOMAIN THEMES = NamedThemes(themeFile)
               /\ \A n \in DOMAIN THEMES : THEMES[n].src = "file"
               /\ "Default" \in DOMAIN THEMES => DEFAULT_THEME = "Default"
        /\ (themeFile.kind # "list" \/ NamedThemes(themeFile) = {}) =>
               /\ DOMAIN THEMES = {"Default"}
               /\ THEMES["Default"] = BuiltinTheme
               /\ DEFAULT_THEME = "Default"

\* The theme file's first record has no name and a later one has: the default
\* theme is the first named one.
C20_Witness ==
    /\ cfgPc = "done"
    /\ themeFile.kind = "list"
    /\ Len(themeFile.content) = 2
    /\ ~themeFile.content[1].hasName
    /\ themeFile.content[2].hasName
    /\ DEFAULT_THEME = themeFile.content[2].name
    /\ DEFAULT_THEME # "Default"

\* ------------------------------------------------------------------ properties: session state

\* C21: start-up tolerates the state file. A missing or malformed estado.json
\* gives the default state (no open files, the default theme, an empty last
\* directory), and whatever the file holds, valid JSON that is not a record
\* with the expected keys included, the main window is constructed without an
\* exception.
C21_StartupTolerant ==
    /\ startPc # "crashed"
    /\ (startPc # "state" /\ stateFile.kind # "value") =>
           /\ stShape = "record"
           /\ stOpenFiles = <<>>
           /\ stTheme = DEFAULT_THEME
           /\ lastDir = ""

\* C22: on every accepted shutdown the state written to estado.json holds, as
\* open_files, the paths of the open tabs inside the project in tab order, as
\* current_theme, the name of the active theme, and as last_dir, the directory
\* of the most recent file open or save-as (lastOpenDir: of the most recent
\* one that opened or saved a file).
C22_WrittenState ==
    (startPc = "closed" /\ written # <<>>) =>
        /\ written[1].open_files = inside_paths(tabs)
        /\ written[1].current_theme = curTheme
        /\ written[1].last_dir = lastOpenDir

\* The sequence s holds no element twice.
NoDuplicates(s) == \A i, j \in 1..Len(s) : i # j => s[i] # s[j]

\* C23: the open file paths form a set. No path is open in two tabs, and the
\* open_files written at shutdown holds no path twice.
C23_OpenPathsAreASet ==
    /\ NoDuplicates([i \in 1..Len(tabs) |-> tabs[i].path])
    /\ written # <<>> => NoDuplicates(written[1].open_files)

\* ------------------------------------------------------------------ properties: themes

\* C24: after any sequence of file opens and theme selections, the active
\* theme is the one applied last in the theme dialog (a cancelled dialog
\* changes neither the active theme nor the tabs), and every open tab, opened
\* before or after the selection, is rendered with the colours of the active
\* theme (of the first theme of the mapping while the active name is none of
\* its keys).
C24_ActiveThemeRendersAll ==
    /\ sOp = "theme" => curTheme = selTheme
    /\ sOp = "theme_cancel" => curTheme = preTheme
    /\ (sOp = "theme_cancel" /\ fOp = "theme") => tabs = preTabs
    /\ \A i \in 1..Len(tabs) : tabs[i].theme = theme_of(curTheme)

\* Two tabs were open when another theme was applied in the dialog, and both
\* changed their colours.
C24_Witness ==
    /\ fOp = "theme"
    /\ sOp = "theme"
    /\ curTheme # preTheme
    /\ Len(tabs) = 2
    /\ Len(preTabs) = 2
    /\ \A i \in 1..2 : preTabs[i].theme # tabs[i].theme

\* ------------------------------------------------------------------ properties: project confinement

\* The path lies outside the project root.
Outside(path) == dirname(path) \notin ProjectDirs

RemoveAt(s, i) == SubSeq(s, 1, i - 1) \o SubSeq(s, i + 1, Len(s))

\* C26: no unsaved work is dropped silently. close_tab never removes a tab
\* whose document is modified, and the window never closes with a modified tab
\* unless the user was asked and chose to discard.
C26_NoSilentLoss ==
    /\ fOp = "close" =>
           \E i \in 1..Len(preTabs) : tabs = RemoveAt(preTabs, i) /\ ~preTabs[i].modified
    /\ (startPc = "closed" /\ closeResp # "discard") =>
           \A i \in 1..Len(tabs) : ~tabs[i].modified

\* C27: a close request that finds a modified tab and is answered with Cancel
\* is ignored and changes nothing: the window stays open, no file is saved,
\* estado.json is not written, the tabs and the session state in memory are
\* as before. The question is asked exactly when a tab's document is modified.
C27_CancelChangesNothing ==
    /\ (fOp = "closeEvent" /\ closeResp = "cancel") =>
           /\ startPc = "running"
           /\ tabs = preTabs /\ cur = preCur
           /\ disk = preDisk
           /\ written = <<>>
           /\ stOpenFiles = preSt.open_files /\ stTheme = preSt.theme
           /\ curTheme = preTheme /\ lastDir = preLastDir
    /\ fOp = "closeEvent" =>
           (closeAsked <=> \E i \in 1..Len(preTabs) : preTabs[i].modified)

\* A close request with two tabs open, the first one modified, was answered
\* with Cancel.
C27_Witness ==
    /\ fOp = "closeEvent"
    /\ closeAsked
    /\ closeResp = "cancel"
    /\ Len(tabs) = 2
    /\ tabs[1].modified
    /\ ~tabs[2].modified

\* ------------------------------------------------------------------ properties: runs and the log

\* The number of the temporary file of the latest run request that cleared the
\* log (0: none): the last one that was written in full.
RECURSIVE LastComplete(_)
LastComplete(files) ==
    IF files = <<>> THEN 0
    ELSE IF files[Len(files)].complete THEN Len(files)
    ELSE LastComplete(SubSeq(files, 1, Len(files) - 1))

\* C28: between a run request and the next, the log holds only output and the
\* completion message of the process that request started: whenever output or
\* a completion message is appended, it comes from the process running the
\* file of the latest request that cleared the log.
C28_LogOfLatestRunOnly ==
    runOp \in {"stdout", "finished"} => procFile = LastComplete(tmpFiles)

\* ------------------------------------------------------------------ properties: the active theme name

\* C29: in every state of the main window, from its construction on, the
\* active theme name is a key of the loaded theme mapping, whatever theme the
\* state file names.
C29_ActiveThemeIsKey ==
    startPc \in {"running", "closed"} => curTheme \in DOMAIN THEMES

\* ------------------------------------------------------------------ properties: creating entries

\* C30: the handlers that create entries never overwrite one. After new file,
\* create in folder and paste, every entry that existed before is there with
\* the content it had; new file wrote the first of nuevo.py, nuevo1.py, ...
\* that did not exist; create in folder on an existing target changed nothing;
\* a pasted file went to the first of name, name_1, ... that did not exist in
\* the destination folder; a folder pasted where its name exists changed
\* nothing.
C30_NeverOverwrites ==
    fOp \in {"new", "create", "paste"} =>
        /\ \A p \in DOMAIN preDisk : p \in DOMAIN disk /\ disk[p] = preDisk[p]
        /\ fOp = "new" =>
               /\ fsTarget \notin DOMAIN preDisk
               /\ \E i \in 0..MaxNewFiles :
                      /\ fsTarget = Candidate(i)
                      /\ \A j \in 0..(i - 1) : Candidate(j) \in DOMAIN preDisk
        /\ (fOp = "create" /\ fsTarget \in DOMAIN preDisk) => disk = preDisk
        /\ (fOp = "paste" /\ fsTarget # NoPath /\ ~clipIsDir) =>
               /\ fsTarget \notin DOMAIN preDisk
               /\ \E i \in 0..MaxCopies :
                      /\ fsTarget = join(fsTarget.dir, CopyName(basename(clipPath), i))
                      /\ \A j \in 0..(i - 1) :
                             join(fsTarget.dir, CopyName(basename(clipPath), j)) \in DOMAIN preDisk
        /\ (fOp = "paste" /\ clipIsDir /\ fsTarget \in DOMAIN preDisk) => disk = preDisk

\* a.py was pasted next to itself and written to a_1.py, after new file had
\* made nuevo1.py beside nuevo.py and the folder s had been pasted into itself.
C30_Witness ==
    /\ fOp = "paste"
    /\ ~fFailed
    /\ ~clipIsDir
    /\ fsTarget = join("/p", "a_1.py")
    /\ fsTarget \in DOMAIN disk
    /\ Candidate(1) \in DOMAIN disk
    /\ join("/p/s", "s") \in DOMAIN disk

====
